---- MODULE Spec2Model ----
(***************************************************************************)
(* The parallel ACE-library build of NDL/ProcessNDL.py: buildacelib fans   *)
(* the NJOY decks of one particle kind out over a worker pool, every job   *)
(* (par_ace_lib) stages its inputs in a temporary directory, runs NJOY     *)
(* once or twice (run_njoy), routes the artifacts (move_and_clean) and     *)
(* appends to the shared ledger files.                                     *)
(*                                                                         *)
(* File names, paths and ledger texts are strings, built and split as the  *)
(* code builds and splits them.  The file system is one map from path to   *)
(* the record of who wrote the file.                                       *)
(***************************************************************************)
EXTENDS Integers, Sequences, FiniteSets, TLC

\* ------------------------------------------------------------------ bounds

\* number of decks found in <inpath>/<proj>
MaxJobs == 2
\* largest pool size np tried
MaxNP == 2
\* the budget of things that go wrong in one batch: one each for a dataset
\* or companion deck that is not there, a non-empty stderr and a warning
\* marker; a file NJOY does not leave or a data block without lines takes
\* the whole budget
MaxFaults == 2

\* --------------------------------------------------------- strings, paths

\* Python's None; no file name and no captured text has this value
None == "<None>"

RECURSIVE find(_, _, _)
\* str.find from position i (1-based); 0 when c does not occur
find(s, c, i) ==
    IF i > Len(s) THEN 0
    ELSE IF SubSeq(s, i, i) = c THEN i
    ELSE find(s, c, i + 1)

RECURSIVE rfind(_, _, _)
\* the last position <= i holding c; 0 when there is none
rfind(s, c, i) ==
    IF i < 1 THEN 0
    ELSE IF SubSeq(s, i, i) = c THEN i
    ELSE rfind(s, c, i - 1)

RECURSIVE split(_, _)
\* str.split(c) for a one-character separator
split(s, c) ==
    LET k == find(s, c, 1)
    IN  IF k = 0 THEN <<s>>
        ELSE <<SubSeq(s, 1, k - 1)>> \o split(SubSeq(s, k + 1, Len(s)), c)

\* os.path.splitext: <<root, ext>>, the extension starting at the last dot
splitext(p) ==
    LET k == rfind(p, ".", Len(p))
    IN  IF k <= 1 THEN <<p, "">>
        ELSE <<SubSeq(p, 1, k - 1), SubSeq(p, k, Len(p))>>

\* str.startswith
startswith(s, pre) == Len(s) >= Len(pre) /\ SubSeq(s, 1, Len(pre)) = pre

\* str.endswith
endswith(s, suf) ==
    Len(s) >= Len(suf) /\ SubSeq(s, Len(s) - Len(suf) + 1, Len(s)) = suf

RECURSIVE replace(_, _, _)
\* str.replace(old, new) for a non-empty old: every occurrence, left to right
replace(s, old, new) ==
    IF Len(s) < Len(old) THEN s
    ELSE IF SubSeq(s, 1, Len(old)) = old
    THEN new \o replace(SubSeq(s, Len(old) + 1, Len(s)), old, new)
    ELSE SubSeq(s, 1, 1) \o replace(SubSeq(s, 2, Len(s)), old, new)

\* str.split(): the words between runs of blanks
words(s) == SelectSeq(split(s, " "), LAMBDA x : x # "")

RECURSIVE int(_)
\* int() of a string of decimal digits
int(s) ==
    IF s = "" THEN 0
    ELSE int(SubSeq(s, 1, Len(s) - 1)) * 10
         + (find("0123456789", SubSeq(s, Len(s), Len(s)), 1) - 1)

\* the slice s[a:b] of a string
slice(s, a, b) ==
    SubSeq(s, a + 1, IF b < Len(s) THEN b ELSE Len(s))

\* os.path.join of two components
join(a, b) == a \o "/" \o b

\* ------------------------------------------------------- the batch's input

\* pdict: the ACE type letter of each particle kind
pdict == [n |-> "c", pa |-> "p", pn |-> "g"]

Projs == {"n", "pa", "pn"}

\* the arguments of buildacelib: the names of the directories
inpath == "njoyinp"
libpath == "endf"
data == "data"
atom_relax == "atomic_relax"
libext == "endf"

\* the decks makeinput may have left in <inpath>/<proj>, as
\* sorted(os.listdir(...)) lists them: in one listing the first two decks
\* are of one nuclide at two temperatures, in the other of two nuclides
DeckCatalogs ==
    {<<"U-235_03.njoyinp", "U-235_06.njoyinp", "W-184_03.njoyinp",
       "Zr-090_03.njoyinp">>,
     <<"U-235_03.njoyinp", "W-184_03.njoyinp", "Zr-090_03.njoyinp",
       "Zr-090_06.njoyinp">>}

Jobs == 1 .. MaxJobs

Workers == 1 .. MaxNP

VARIABLES
    inpfiles,   \* the decks of the batch, in sorted order
    proj,       \* particle key of the batch: "n", "pa" or "pn"
    binary,     \* buildacelib's binary flag
    np,         \* pool size
    inpfilesK,  \* per job: the companion deck's name, or None
    fs,         \* the file system: path |-> [by |-> job that wrote it]
    taskq,      \* pool.map's task queue: the chunks not yet taken
    chunk,      \* per worker: the jobs of its chunk not yet finished
    mapfailed,  \* pool.map has recorded a job's exception
    mapstate,   \* "running", "returned" or "raised"
    pc,         \* per job: the next step of par_ace_lib
    tmpath,     \* per job: its temporary directory, or None
    njoy,       \* per job: what its NJOY runs printed and left out
    outstream,  \* per job: run_njoy's result for the deck
    outstreamK, \* per job: run_njoy's result for the companion deck
    success,    \* per job: move_and_clean's success flag
    KERMA_warn, \* per job: move_and_clean's warning list, or None
    moves,      \* per job: the sh.move calls of move_and_clean, in order
    ledger,     \* ledger file |-> the sequence of appended pieces
    faults,     \* things gone wrong so far
    endf,       \* parseENDF6: the header records of the file it reads
    identity,   \* parseENDF6: what it returned or that it raised
    ace,        \* move_and_clean on tape29: the files in the directory
    acenew,     \* move_and_clean on tape29: the lines of tape29 afterwards
    mk,         \* makeinput: its arguments and the listing of the directory
    ifile,      \* makeinput: how many files of the listing it has passed
    njoyinps,   \* makeinput: the decks written
    renamed,    \* makeinput: the files renamed, <<from, to>>
    mkerror,    \* makeinput: the error that ended it, or None
    passes,     \* makeinput: the outcome of each pass of its loop
    deckargs,   \* build_njoy_deck: its arguments, the host and the time
    outstr,     \* build_njoy_deck: the deck it returned
    again,      \* build_njoy_deck: the deck of a second call, its host and time
    pool        \* buildacelib: the CPUs of the host, the argument np, the pool

\* the state of a batch
batch ==
    <<inpfiles, proj, binary, np, inpfilesK, fs, taskq, chunk, mapfailed,
      mapstate, pc, tmpath, njoy, outstream, outstreamK, success, KERMA_warn,
      moves, ledger, faults>>

\* the state of the functions called on their own
parsevars == <<endf, identity>>
acevars == <<ace, acenew>>
makevars == <<mk, ifile, njoyinps, renamed, mkerror, passes>>
deckvars == <<deckargs, outstr, again>>
calls == <<parsevars, acevars, makevars, deckvars, pool>>

vars == <<batch, calls>>

\* ------------------------------------------------------------ file system

exists(F, p) == p \in DOMAIN F

\* a file written anew at p by job j
written(F, p, j) ==
    [q \in DOMAIN F \cup {p} |-> IF q = p THEN [by |-> j] ELSE F[q]]

\* os.remove of the paths in ps
removed(F, ps) == [q \in DOMAIN F \ ps |-> F[q]]

\* shutil.copyfile(src, dst) done by job j; src exists
copyfile(F, src, dst, j) == written(F, dst, j)

\* shutil.move(src, dst): a rename, the file keeps its writer; src exists
move(F, src, dst) ==
    [q \in (DOMAIN F \ {src}) \cup {dst} |-> IF q = dst THEN F[src] ELSE F[q]]

\* the files below directory d
below(F, d) == {q \in DOMAIN F : startswith(q, d \o "/")}

\* ------------------------------------------------------------------ paths

\* buildacelib: outpath = <libpath>/out/<proj>
outpathOf(pr) == join(join(libpath, "out"), pr)

\* the deck's path in the input directory
deckpath(pr, f) == join(join(inpath, pr), f)

\* buildacelib: the companion deck's name, <name>.njoyinpK
kname(f) == split(f, ".")[1] \o ".njoyinpK"

\* par_ace_lib: endfname = <fname>.<libext>, fname the deck's stem before "_"
endfnameOf(f) ==
    LET fname_tmp == splitext(f)[1]
        fname == split(fname_tmp, "_")[1]
    IN  fname \o "." \o libext

\* the evaluation dataset's canonical path <libpath>/<data>/<endfname>
datasetpath(f) == join(join(libpath, data), endfnameOf(f))

\* the atomic-relaxation dataset's canonical path
relaxpath(f) == join(join(libpath, atom_relax), endfnameOf(f))

\* a fresh directory below dir, as a bug would hand out
mkdtemp_shared(dir, existing) == join(dir, "tmp1")

\* tempfile.TemporaryDirectory(dir=...): a directory that does not exist yet
mkdtemp(dir, existing) ==
    LET name(k) == join(dir, "tmp" \o ToString(k))
        k == CHOOSE i \in 1 .. Cardinality(existing) + 1 :
                 /\ name(i) \notin existing
                 /\ \A h \in 1 .. i - 1 : name(h) \in existing
    IN  name(k)

\* ------------------------------------------------------------- pool.map

\* Pool.map's default chunksize: ceil(len(iterable) / (4 * processes))
chunksize(n, procs) ==
    LET q == n \div (procs * 4)
        extra == n % (procs * 4)
    IN  IF extra # 0 THEN q + 1 ELSE q

RECURSIVE chunks(_, _)
\* the task list cut into chunks of c jobs, in order
chunks(js, c) ==
    IF Len(js) <= c THEN (IF js = <<>> THEN <<>> ELSE <<js>>)
    ELSE <<SubSeq(js, 1, c)>> \o chunks(SubSeq(js, c + 1, Len(js)), c)

\* the job a worker is running
current(w) == Head(chunk[w])

\* the jobs that are inside par_ace_lib's with-block
Running == {j \in Jobs : pc[j] \notin {"wait", "done", "raised"}}

\* the temporary directories that exist
TmpDirs == {tmpath[j] : j \in Running}

\* ------------------------------------------------------------------- Init

\* Python's None where move_and_clean returns no warning list
NoWarnings == <<None>>

\* the ledgers par_ace_lib appends to, in the output directory
LedgerFiles ==
    {"COMPLETED.txt", "FAILED.txt", "WARNINGS_NJOY.txt", "ERRORS_NJOY.txt",
     "WARNINGS_NJOY_KERMA.txt", "ERRORS_NJOY_KERMA.txt",
     "WARNINGS_ENDF_KERMA.txt"}

\* what a job's NJOY runs print and leave out, before any run
NoRun ==
    [stdout |-> "", stderr |-> "", stdoutK |-> "", stderrK |-> "",
     omitted |-> {}, nolines |-> {}]

\* no header read by parseENDF6
NoHeader == [ZA |-> 0, MAT |-> "", ext_en |-> 0, iso_st |-> 0]

\* the result of a function that has not been called
NotCalled == [called |-> FALSE]

\* no function is called on its own while a batch runs
NoParse == endf = NoHeader /\ identity = NotCalled

NoAce == ace = NotCalled /\ acenew = NotCalled

NoMake ==
    /\ mk = NotCalled
    /\ ifile = 0
    /\ njoyinps = {}
    /\ renamed = {}
    /\ mkerror = None
    /\ passes = <<>>

NoDeck == deckargs = NotCalled /\ outstr = NotCalled /\ again = NotCalled

NoPool == pool = NotCalled

\* no function has been called on its own
NoCalls == NoParse /\ NoAce /\ NoMake /\ NoDeck /\ NoPool

\* the decks, the datasets and the companion datasets on disk at the start
InitFiles(pr, fK, nodata, norelax) ==
    LET decks == {deckpath(pr, inpfiles[j]) : j \in Jobs}
        decksK == {deckpath(pr, fK[j]) : j \in {i \in Jobs : fK[i] # None}}
        sets == {datasetpath(inpfiles[j]) : j \in Jobs} \ nodata
        relax == IF pr = "pa"
                 THEN {relaxpath(inpfiles[j]) : j \in Jobs} \ norelax
                 ELSE {}
    IN  [p \in decks \cup decksK \cup sets \cup relax |-> [by |-> 0]]

Init ==
    /\ inpfiles \in {SubSeq(c, 1, MaxJobs) : c \in DeckCatalogs}
    /\ proj \in Projs
    /\ binary \in BOOLEAN
    /\ proj # "n" => binary = TRUE
    /\ np \in 1 .. MaxNP
    /\ \E noK \in SUBSET Jobs,
          nodata \in SUBSET {datasetpath(inpfiles[j]) : j \in Jobs},
          norelax \in SUBSET {relaxpath(inpfiles[j]) : j \in Jobs} :
          /\ proj = "pa" => noK = Jobs
          /\ proj # "pa" => norelax = {}
          /\ faults = (IF proj = "pa" THEN 0 ELSE Cardinality(noK))
                      + Cardinality(nodata) + Cardinality(norelax)
          /\ faults <= MaxFaults
          /\ inpfilesK = [j \in Jobs |->
                            IF j \in noK THEN None ELSE kname(inpfiles[j])]
          /\ fs = InitFiles(proj, inpfilesK, nodata, norelax)
    /\ taskq = chunks([j \in Jobs |-> j], chunksize(MaxJobs, np))
    /\ chunk = [w \in Workers |-> <<>>]
    /\ mapfailed = FALSE
    /\ mapstate = "running"
    /\ pc = [j \in Jobs |-> "wait"]
    /\ tmpath = [j \in Jobs |-> None]
    /\ njoy = [j \in Jobs |-> NoRun]
    /\ outstream = [j \in Jobs |-> None]
    /\ outstreamK = [j \in Jobs |-> None]
    /\ success = [j \in Jobs |-> TRUE]
    /\ KERMA_warn = [j \in Jobs |-> NoWarnings]
    /\ moves = [j \in Jobs |-> <<>>]
    /\ ledger = [f \in LedgerFiles |-> <<>>]
    /\ faults \in 0 .. MaxFaults
    /\ NoCalls

\* ------------------------------------------------------------------- NJOY

\* run_njoy: the marker of acer's consistency warnings
warn_msg == "---message from consis---consistency problems found"

\* re.search of a pattern without special characters: a substring test
search(pat, s) ==
    \E i \in 1 .. Len(s) - Len(pat) + 1 : SubSeq(s, i, i + Len(pat) - 1) = pat

\* what NJOY may print on stdout: a clean listing, or one with the marker
CleanStdout == " njoy ... acer..."
WarnedStdout == " acer... ---message from consis---consistency problems found"
Stdouts == {CleanStdout, WarnedStdout}

\* what NJOY may print on stderr: nothing, the word "warning", a short
\* message, or a text longer than the writer's buffer
ShortErr == "***error in acer***"
LongErr == "<a long traceback>"
Stderrs == {"", "warning", ShortErr, LongErr}

\* the number of characters of the long stderr text
LongErrLen == 9000

\* len(text)
textlen(s) == IF s = LongErr THEN LongErrLen ELSE Len(s)

\* run_njoy, on the decoded stdout and stderr of the process
run_njoy(stream, stream_stderr) ==
    IF stream_stderr # "" THEN stream_stderr
    ELSE IF search(warn_msg, stream) THEN "warning"
    ELSE None

tape(u) == "tape" \o ToString(u)

\* build_njoy_deck: the units the deck of a kind makes NJOY write
DeckUnits(pr, kerma, bin) ==
    IF pr = "n" /\ ~kerma
    THEN {21, 22, 23, 24, 40, 25, 26, 27, 28, 33, 29, 30, 34, 35}
         \cup (IF bin THEN {} ELSE {96})
    ELSE IF pr = "n" THEN {54, 60, 56, 66, 67}
    ELSE IF pr = "pa" THEN {29, 30}
    ELSE {21, 22, 27, 28, 33, 29, 30, 34}

\* the files one NJOY run leaves in its working directory
NjoyFiles(pr, kerma, bin) ==
    {tape(u) : u \in DeckUnits(pr, kerma, bin)} \cup {"output"}

\* the files of a run that move_and_clean looks for
Routed ==
    {"output", "tape22", "tape26", "tape96", "tape29", "tape30", "tape34",
     "tape35", "tape56", "tape60", "tape66", "tape67"}

\* the data blocks move_and_clean scans for: <<file, MT marker>>
Blocks(kerma) ==
    IF kerma
    THEN {<<"tape66", "3318">>, <<"tape67", "3301">>, <<"tape67", "3318">>,
          <<"tape67", "2153">>}
    ELSE {<<"tape20", "1458">>}

\* few(S, k): the subsets of S of at most k elements
few(S, k) == {x \in SUBSET S : Cardinality(x) <= k}

\* tape29, lines 9 and 11: the nuclides with fission and with an
\* unresolved-resonance range
Fissile == {"U-235.endf"}
Unresolved == {"U-235.endf", "W-184.endf"}

\* --------------------------------------------------------- par_ace_lib

\* an exception leaves par_ace_lib: the temporary directory is removed, the
\* rest of the worker's chunk is dropped and pool.map records the failure
Raise(w, j, F, tmp) ==
    /\ pc' = [pc EXCEPT ![j] = "raised"]
    /\ fs' = removed(F, below(F, tmp))
    /\ chunk' = [chunk EXCEPT ![w] = <<>>]
    /\ mapfailed' = TRUE

\* a worker takes the next chunk of the task queue
GetTask(w) ==
    /\ w <= np
    /\ mapstate = "running"
    /\ chunk[w] = <<>>
    /\ taskq # <<>>
    /\ chunk' = [chunk EXCEPT ![w] = Head(taskq)]
    /\ taskq' = Tail(taskq)
    /\ UNCHANGED <<calls, inpfiles, proj, binary, np, inpfilesK, fs,
                   mapfailed, mapstate, pc, tmpath, njoy, outstream,
                   outstreamK, success, KERMA_warn, moves, ledger, faults>>

\* the dataset taken out of the library instead of copied
stage_dataset_moved(F, src, dst, j) == move(F, src, dst)

\* par_ace_lib: the dataset is copied to tape20, whatever copyflag says
stage_dataset(F, src, dst, j) == copyfile(F, src, dst, j)

\* par_ace_lib up to the NJOY run: the temporary directory, the decks, tape20
\* and, for photo-atomic data, tape21
Stage(w) ==
    /\ chunk[w] # <<>>
    /\ pc[current(w)] = "wait"
    /\ LET j == current(w)
           f == inpfiles[j]
           fK == inpfilesK[j]
           tmp == mkdtemp(outpathOf(proj), TmpDirs)
           F1 == copyfile(fs, deckpath(proj, f), join(tmp, f), j)
           F2 == IF fK # None
                 THEN copyfile(F1, deckpath(proj, fK), join(tmp, fK), j)
                 ELSE F1
           F3 == IF exists(F2, datasetpath(f))
                 THEN stage_dataset(F2, datasetpath(f), join(tmp, "tape20"), j)
                 ELSE F2
       IN  /\ tmpath' = [tmpath EXCEPT ![j] = tmp]
           /\ IF proj = "pa" /\ ~exists(F3, relaxpath(f))
              THEN Raise(w, j, F3, tmp)
              ELSE /\ fs' = (IF proj = "pa"
                             THEN move(F3, relaxpath(f), join(tmp, "tape21"))
                             ELSE F3)
                   /\ pc' = [pc EXCEPT ![j] = "run"]
                   /\ UNCHANGED <<chunk, mapfailed>>
    /\ UNCHANGED <<calls, inpfiles, proj, binary, np, inpfilesK, taskq,
                   mapstate, njoy, outstream, outstreamK, success, KERMA_warn,
                   moves, ledger, faults>>

\* one call of run_njoy: NJOY runs in the job's directory on the deck
\* (kerma = FALSE) or on the companion deck (kerma = TRUE)
RunNjoy(w, kerma) ==
    /\ chunk[w] # <<>>
    /\ pc[current(w)] = (IF kerma THEN "runK" ELSE "run")
    /\ LET j == current(w)
           left == MaxFaults - faults
           made == NjoyFiles(proj, kerma, binary)
       IN  \E stream \in Stdouts, stream_stderr \in Stderrs,
              om \in few(made \cap Routed, 1),
              nl \in few(Blocks(kerma), 1) :
              LET cost == MaxFaults * (Cardinality(om) + Cardinality(nl))
                          + (IF stream = CleanStdout THEN 0 ELSE 1)
                          + (IF stream_stderr = "" THEN 0 ELSE 1)
              IN  /\ cost <= left
                  /\ faults' = faults + cost
                  /\ fs' = [q \in DOMAIN fs
                                \cup {join(tmpath[j], x) : x \in made \ om} |->
                              IF q \in {join(tmpath[j], x) : x \in made \ om}
                              THEN [by |-> j] ELSE fs[q]]
                  /\ njoy' = [njoy EXCEPT ![j] =
                       IF kerma
                       THEN [@ EXCEPT !.stdoutK = stream,
                                      !.stderrK = stream_stderr,
                                      !.omitted = @ \cup om,
                                      !.nolines = @ \cup nl]
                       ELSE [@ EXCEPT !.stdout = stream,
                                      !.stderr = stream_stderr,
                                      !.omitted = @ \cup om,
                                      !.nolines = @ \cup nl]]
                  /\ IF kerma
                     THEN /\ outstreamK' = [outstreamK EXCEPT ![j] =
                                 run_njoy(stream, stream_stderr)]
                          /\ UNCHANGED outstream
                     ELSE /\ outstream' = [outstream EXCEPT ![j] =
                                 run_njoy(stream, stream_stderr)]
                          /\ UNCHANGED outstreamK
                  /\ pc' = [pc EXCEPT ![j] =
                       IF ~kerma /\ inpfilesK[j] # None THEN "runK"
                       ELSE "move"]
    /\ UNCHANGED <<calls, inpfiles, proj, binary, np, inpfilesK, taskq, chunk,
                   mapfailed, mapstate, tmpath, success, KERMA_warn, moves,
                   ledger>>

\* ---------------------------------------------------------- parseENDF6

\* the first MF1/MT451 record of each dataset of the library and the record
\* after it: the combined ZA value, the MAT number, the excitation energy
\* (positive or not) and the isomer-state ordinal
Header(endfname) ==
    CASE endfname = "U-235.endf" ->
           [ZA |-> 92235, MAT |-> "9228", ext_en |-> 0, iso_st |-> 0]
      [] endfname = "W-184.endf" ->
           [ZA |-> 74184, MAT |-> "7437", ext_en |-> 0, iso_st |-> 0]
      [] OTHER ->
           [ZA |-> 40090, MAT |-> "4025", ext_en |-> 0, iso_st |-> 0]

\* parseENDF6 with the consistency check left out
conflict_never(ext_en, iso_st) == FALSE

\* parseENDF6's consistency check of the record after the first MT451 one
conflict(ext_en, iso_st) == ext_en > 0 /\ iso_st = 0

\* the isomer multiplier with the limits of A moved by one
multiplier_shifted(iso_st, A) ==
    IF iso_st > 0
    THEN (IF A >= 200 THEN 1 ELSE IF A >= 100 THEN 2 ELSE 3)
    ELSE 0

\* parseENDF6's isomer multiplier
multiplier(iso_st, A) ==
    IF iso_st > 0
    THEN (IF A > 200 THEN 1 ELSE IF A > 100 THEN 2 ELSE 3)
    ELSE 0

\* parseENDF6 on the header h of a file: it raises ValueError, or returns
\* str(ZA), MAT, the natural-element flag and the isomer multiplier (ZAint
\* is the number str(ZA) is printed from)
parseENDF6(h) ==
    LET Z == h.ZA \div 1000
        A == h.ZA - Z * 1000
    IN  IF conflict(h.ext_en, h.iso_st)
        THEN [raised |-> TRUE, ZA |-> None, MAT |-> None, natflag |-> 0,
              iso |-> 0, ZAint |-> 0]
        ELSE [raised |-> FALSE, ZA |-> ToString(h.ZA), MAT |-> h.MAT,
              natflag |-> (IF A = 0 THEN 1 ELSE 0),
              iso |-> multiplier(h.iso_st, A), ZAint |-> h.ZA]

\* ------------------------------------------------------- move_and_clean

\* dir_names[proj] flattened in the order the loops visit it:
\* <<directory, file name>>, the name None for an absent companion deck
dir_names(pr, inp, inpK, bin) ==
    LET datapath == join(libpath, data)
        atom_relax_datapath == join(libpath, atom_relax)
        pendfnames == IF bin THEN <<"tape26", "tape56">>
                      ELSE <<"tape96", "tape67">>
    IN  IF pr = "n"
        THEN <<<<datapath, "tape20">>, <<"pendfdir_bin", pendfnames[1]>>,
               <<"pendfdir_bin", pendfnames[2]>>, <<"acedir", "tape29">>,
               <<"xsdir", "tape30_1">>, <<"njoyout", "out.gz">>,
               <<"viewheatdir", "tape35">>, <<"viewheatdir", "tape60">>,
               <<"viewacedir", "tape34">>, <<"njoyinp", inp>>,
               <<"njoyinp", inpK>>>>
        ELSE IF pr = "pa"
        THEN <<<<datapath, "tape20">>, <<atom_relax_datapath, "tape21">>,
               <<"acedir", "tape29">>, <<"xsdir", "tape30_1">>,
               <<"njoyout", "out.gz">>, <<"njoyinp", inp>>>>
        ELSE <<<<datapath, "tape20">>, <<"pendfdir_bin", "tape22">>,
               <<"acedir", "tape29">>, <<"xsdir", "tape30_1">>,
               <<"njoyout", "out.gz">>, <<"viewacedir", "tape34">>,
               <<"njoyinp", inp>>>>

\* ext_names[proj][fname]
ext_names(pr, fname, inp, inpK, endfname) ==
    CASE fname \in {"tape20", "tape21"} -> endfname
      [] fname \in {"tape22", "tape26", "tape96"} -> ".pendf"
      [] fname = "tape29" -> ".ace"
      [] fname = "tape30_1" -> ".xsdir"
      [] fname = "out.gz" -> ".out.gz"
      [] fname \in {"tape34", "tape35"} -> ".eps"
      [] fname \in {"tape56", "tape67"} -> "_KERMA.pendf"
      [] fname = "tape60" -> "_KERMA.eps"
      [] fname = inp -> ".njoyinp"
      [] fname = inpK -> ".njoyinpK"

\* the path of an artifact in the output tree, named after another stem
outname_by_nuclide(path, dirname, ASAIDT, ext) ==
    join(join(path, dirname), split(ASAIDT, "_")[1] \o ext)

\* the path of an artifact in the output tree: <path>/<dirname>/<ASAIDT><ext>
outname(path, dirname, ASAIDT, ext) ==
    join(join(path, dirname), ASAIDT \o ext)

\* whether the scanned file holds at least one line with the marker: the
\* run of the job that wrote the file decided it
haslines(F, tmp, file, marker) ==
    <<file, marker>> \notin njoy[F[join(tmp, file)].by].nolines

\* the handler that lets the error go on instead
missing_reraised(warn) == [success |-> FALSE, warn |-> warn, raised |-> TRUE]

\* except FileNotFoundError: success = False
missing(warn) == [success |-> FALSE, warn |-> warn, raised |-> FALSE]

\* the end of the first try block where a warning of an empty block is
\* taken for a failure
warned_failing(warn) ==
    [success |-> warn = <<>>,
     warn |-> (IF warn = <<>> THEN NoWarnings ELSE warn), raised |-> FALSE]

\* the end of the first try block with every file read: success is left as
\* it was, True, and the warnings are None when there is none
warned(warn) ==
    [success |-> TRUE,
     warn |-> (IF warn = <<>> THEN NoWarnings ELSE warn), raised |-> FALSE]

\* move_and_clean's first try block: tape29 is rewritten and the extra data
\* blocks are appended to it; a file that is not there ends the block with
\* success = False and the warnings gathered so far
fix_tape29(F, tmp, pr, ZAIDT1) ==
    IF pr \notin {"n", "pn"}
    THEN [success |-> TRUE, warn |-> <<>>, raised |-> FALSE]
    ELSE IF ~exists(F, join(tmp, "tape29"))
    THEN missing(<<>>)
    ELSE
    LET nuclide == endfnameOf(inpfiles[F[join(tmp, "tape29")].by])
        fiss == nuclide \in Fissile
        ures == nuclide \in Unresolved
        w1 == IF fiss /\ ~haslines(F, tmp, "tape20", "1458")
              THEN <<"Warning: no MT458 data for " \o ZAIDT1>>
              ELSE <<>>
    IN  IF fiss /\ ~exists(F, join(tmp, "tape66"))
        THEN missing(w1)
        ELSE
        LET w2 == IF fiss /\ ~haslines(F, tmp, "tape66", "3318")
                  THEN Append(w1, "Warning: no local fission KERMA data for "
                                  \o ZAIDT1)
                  ELSE w1
        IN  IF ~exists(F, join(tmp, "tape67"))
            THEN missing(w2)
            ELSE
            LET w3 == IF ~haslines(F, tmp, "tape67", "3301")
                      THEN Append(w2, "Warning: no non-local KERMA data for "
                                      \o ZAIDT1)
                      ELSE w2
                w4 == IF fiss /\ ~haslines(F, tmp, "tape67", "3318")
                      THEN Append(w3,
                             "Warning: no non-local fission KERMA data for "
                             \o ZAIDT1)
                      ELSE w3
                w5 == IF ures /\ ~haslines(F, tmp, "tape67", "2153")
                      THEN Append(w4,
                             "Warning: no additional ures data for KERMA"
                             \o " data for " \o ZAIDT1)
                      ELSE w4
            IN  warned(w5)

\* the try block around sh.move: the move is made, or success becomes
\* False when the source is not there; either way the attempt is recorded
try_move(R) ==
    IF exists(R.fs, R.ipath)
    THEN [R EXCEPT !.fs = move(R.fs, R.ipath, R.opath),
                   !.moves = Append(@, [src |-> R.ipath, dst |-> R.opath,
                                        ok |-> TRUE])]
    ELSE [R EXCEPT !.success = FALSE,
                   !.moves = Append(@, [src |-> R.ipath, dst |-> R.opath,
                                        ok |-> FALSE])]

\* one pass of the loop over dir_names[proj] for one file name; c holds the
\* arguments of move_and_clean
move_one(R, dirname, fname, c) ==
    LET ext == ext_names(c.pr, fname, c.inp, c.inpK, c.endfname)
    IN  IF fname = "out.gz"
        THEN IF ~exists(R.fs, join(c.tmp, "output"))
             THEN [R EXCEPT !.raised = TRUE]
             ELSE try_move(
                    [R EXCEPT !.fs = written(@, join(c.tmp, "out.gz"), c.j),
                              !.ipath = join(c.tmp, fname),
                              !.opath = outname(c.path, dirname, c.ASAIDT,
                                                ext)])
        ELSE IF fname # "tape20" /\ fname # "tape21"
        THEN IF fname # None
             THEN try_move(
                    [R EXCEPT !.ipath = join(c.tmp, fname),
                              !.opath = outname(c.path, dirname, c.ASAIDT,
                                                ext)])
             ELSE try_move(R)
        ELSE try_move([R EXCEPT !.ipath = join(c.tmp, fname),
                                !.opath = join(dirname, ext)])

RECURSIVE move_loop(_, _, _)
\* the loop over dir_names[proj]; an exception ends it
move_loop(R, entries, c) ==
    IF entries = <<>> \/ R.raised THEN R
    ELSE move_loop(move_one(R, Head(entries)[1], Head(entries)[2], c),
                   Tail(entries), c)

\* move_and_clean for job j in directory tmp on file system F: the file
\* system it leaves, success, the warnings, the moves it tried, and whether
\* an exception left it
move_and_clean(F, j, inp, inpK, path, tmp, endfname, pr, bin) ==
    LET ASAIDT == splitext(inp)[1]
        temp == split(ASAIDT, "_")[2]
    IN  IF ~exists(F, join(tmp, "tape20"))
        THEN [fs |-> F, success |-> TRUE, warn |-> <<>>, moves |-> <<>>,
              raised |-> TRUE, ipath |-> None, opath |-> None]
        ELSE
        LET hdr == parseENDF6(Header(endfnameOf(
                       inpfiles[F[join(tmp, "tape20")].by])))
            ZAIDT1 == ToString(hdr.ZAint + 100 * hdr.iso) \o "." \o temp
                      \o pdict[pr]
            t1 == fix_tape29(F, tmp, pr, ZAIDT1)
            has30 == exists(F, join(tmp, "tape30"))
            F1 == IF has30 THEN written(F, join(tmp, "tape30_1"), j) ELSE F
            R0 == [fs |-> F1, success |-> t1.success /\ has30,
                   warn |-> t1.warn, moves |-> <<>>, raised |-> t1.raised,
                   ipath |-> None, opath |-> None]
            c == [j |-> j, inp |-> inp, inpK |-> inpK, path |-> path,
                  tmp |-> tmp, endfname |-> endfname, pr |-> pr,
                  ASAIDT |-> ASAIDT]
            R1 == IF t1.raised THEN [R0 EXCEPT !.fs = F]
                  ELSE move_loop(R0, dir_names(pr, inp, inpK, bin), c)
            f_del == {q \in DOMAIN R1.fs : startswith(q, join(tmp, "tape"))}
        IN  IF R1.raised THEN R1
            ELSE [R1 EXCEPT !.fs = removed(@, f_del \cup
                                              {join(tmp, "output")})]

\* the lines of a file whose columns 72-75 hold the marker
marked(lines, marker) ==
    SelectSeq(lines, LAMBDA line : slice(line, 71, 75) = marker)

\* line = line[:71]+'3319'+line[75:]
relabel(line) ==
    slice(line, 0, 71) \o "3319" \o slice(line, 75, Len(line))

\* the rewrite that substitutes the tag on whichever line holds it
tagline_everywhere(iline, line, ZAIDT0, ZAIDT1) ==
    replace(line, ZAIDT0, ZAIDT1)

\* what the in-place pass prints for line iline of tape29
tagline(iline, line, ZAIDT0, ZAIDT1) ==
    IF iline = 0 THEN replace(line, ZAIDT0, ZAIDT1) ELSE line

\* the tag of an ACE table: '.'.join([ZAID, temp]) followed by pdict[proj]
ZAIDT(ZAID, temp, pr) ==
    ZAID \o "." \o temp \o pdict[pr]

\* the lines of tape29 after move_and_clean's first try block, for a
\* directory d holding tape29, tape20 and possibly tape66 and tape67: the
\* in-place pass, then the appended blocks until a file is not there
tape29_after(d, pr, ZAIDT0, ZAIDT1) ==
    IF pr \notin {"n", "pn"} THEN d.tape29
    ELSE
    LET t1 == [i \in DOMAIN d.tape29 |->
                 tagline(i - 1, d.tape29[i], ZAIDT0, ZAIDT1)]
        fiss == Len(d.tape29) > 8 /\ int(words(d.tape29[9])[2]) > 0
        ures == Len(d.tape29) > 10 /\ int(words(d.tape29[11])[7]) > 0
        t2 == IF fiss THEN t1 \o marked(d.tape20, "1458") ELSE t1
    IN  IF fiss /\ ~d.has66 THEN t2
        ELSE
        LET t3 == IF fiss
                  THEN t2 \o [i \in DOMAIN marked(d.tape66, "3318") |->
                                relabel(marked(d.tape66, "3318")[i])]
                  ELSE t2
        IN  IF ~d.has67 THEN t3
            ELSE t3 \o marked(d.tape67, "3301")
                    \o (IF fiss THEN marked(d.tape67, "3318") ELSE <<>>)
                    \o (IF ures THEN marked(d.tape67, "2153") ELSE <<>>)

\* ---------------------------------------------------------- the ledgers

\* the buffer of a file opened with open(path, 'a'): io.DEFAULT_BUFFER_SIZE
DEFAULT_BUFFER_SIZE == 8192

\* printime(start_time); the elapsed time itself is not modelled
printime == "Elapsed time ... s."

\* the banner line of a warning or error block
banner(f) == "-------------- " \o f \o " -------------- "

RECURSIVE joinlines(_)
\* "\n".join(lines)
joinlines(lines) ==
    IF lines = <<>> THEN ""
    ELSE IF Len(lines) = 1 THEN lines[1]
    ELSE lines[1] \o "\n" \o joinlines(Tail(lines))

\* one write(2) on a file opened for appending: the pieces go to the end of
\* the file together
append(L, file, j, texts) ==
    [L EXCEPT ![file] = @ \o [i \in 1 .. Len(texts) |->
                                [job |-> j, text |-> texts[i]]]]

RECURSIVE buffered(_)
\* the characters the texts of one with-block put in the writer's buffer,
\* every text with its newline
buffered(texts) ==
    IF texts = <<>> THEN 0
    ELSE textlen(Head(texts)) + 1 + buffered(Tail(texts))

\* whether the texts written inside one with-block reach the file in one
\* write(2): they do when they fit the buffer together
onewrite(texts) == buffered(texts) <= DEFAULT_BUFFER_SIZE

\* COMPLETED.txt for the other outcome
status_file_swapped(ok) == IF ok THEN "FAILED.txt" ELSE "COMPLETED.txt"

\* par_ace_lib: the ledger of the job's outcome
status_file(ok) == IF ok THEN "COMPLETED.txt" ELSE "FAILED.txt"

\* the next block of par_ace_lib that has something to do, from block k on:
\* 1 the NJOY stream, 2 the companion's stream, 3 the KERMA warnings
nextblock(j, k, warn) ==
    IF k <= 1 /\ outstream[j] # None THEN "njoy"
    ELSE IF k <= 2 /\ outstreamK[j] # None THEN "njoyK"
    ELSE IF k <= 3 /\ warn # NoWarnings THEN "kerma"
    ELSE "exit"

\* what par_ace_lib does with the result R of move_and_clean: it keeps
\* success and the warnings, or the exception goes on out of par_ace_lib
Returned(w, j, R) ==
    /\ moves' = [moves EXCEPT ![j] = R.moves]
    /\ IF R.raised
       THEN /\ Raise(w, j, R.fs, tmpath[j])
            /\ UNCHANGED <<success, KERMA_warn>>
       ELSE /\ fs' = R.fs
            /\ success' = [success EXCEPT ![j] = R.success]
            /\ KERMA_warn' = [KERMA_warn EXCEPT ![j] = R.warn]
            /\ pc' = [pc EXCEPT ![j] = "status"]
            /\ UNCHANGED <<chunk, mapfailed>>

\* par_ace_lib calls move_and_clean on what the NJOY runs left
MoveAndClean(w) ==
    /\ chunk[w] # <<>>
    /\ pc[current(w)] = "move"
    /\ Returned(w, current(w),
                move_and_clean(fs, current(w), inpfiles[current(w)],
                               inpfilesK[current(w)], outpathOf(proj),
                               tmpath[current(w)],
                               endfnameOf(inpfiles[current(w)]), proj,
                               binary))
    /\ UNCHANGED <<calls, inpfiles, proj, binary, np, inpfilesK, taskq,
                   mapstate, tmpath, njoy, outstream, outstreamK, ledger,
                   faults>>

\* the line in COMPLETED.txt or FAILED.txt
WriteStatus(w) ==
    /\ chunk[w] # <<>>
    /\ pc[current(w)] = "status"
    /\ LET j == current(w)
           arg1 == split(inpfiles[j], ".")[1]
           word == IF success[j] THEN "COMPLETED" ELSE "FAILED"
       IN  /\ ledger' = append(ledger, status_file(success[j]), j,
                 <<arg1 \o " processing " \o word \o ". " \o printime>>)
           /\ pc' = [pc EXCEPT ![j] = nextblock(j, 1, KERMA_warn[j])]
    /\ UNCHANGED <<calls, inpfiles, proj, binary, np, inpfilesK, fs, taskq,
                   chunk, mapfailed, mapstate, tmpath, njoy, outstream,
                   outstreamK, success, KERMA_warn, moves, faults>>

\* the block for the deck's NJOY stream: WARNINGS_NJOY.txt for "warning",
\* ERRORS_NJOY.txt for anything else; a block longer than the buffer
\* reaches the file in two writes, the banner first
WriteNjoy(w) ==
    /\ chunk[w] # <<>>
    /\ pc[current(w)] = "njoy"
    /\ LET j == current(w)
           f == inpfiles[j]
           file == IF outstream[j] = "warning" THEN "WARNINGS_NJOY.txt"
                   ELSE "ERRORS_NJOY.txt"
           body == IF outstream[j] = "warning"
                   THEN "Consistency problems found in acer running " \o f
                   ELSE outstream[j]
       IN  IF onewrite(<<banner(f), body>>)
           THEN /\ ledger' = append(ledger, file, j, <<banner(f), body>>)
                /\ pc' = [pc EXCEPT ![j] = nextblock(j, 2, KERMA_warn[j])]
           ELSE /\ ledger' = append(ledger, file, j, <<banner(f)>>)
                /\ pc' = [pc EXCEPT ![j] = "njoy2"]
    /\ UNCHANGED <<calls, inpfiles, proj, binary, np, inpfilesK, fs, taskq,
                   chunk, mapfailed, mapstate, tmpath, njoy, outstream,
                   outstreamK, success, KERMA_warn, moves, faults>>

\* the rest of a long block in ERRORS_NJOY.txt
WriteNjoyRest(w) ==
    /\ chunk[w] # <<>>
    /\ pc[current(w)] = "njoy2"
    /\ LET j == current(w)
       IN  /\ ledger' = append(ledger, "ERRORS_NJOY.txt", j, <<outstream[j]>>)
           /\ pc' = [pc EXCEPT ![j] = nextblock(j, 2, KERMA_warn[j])]
    /\ UNCHANGED <<calls, inpfiles, proj, binary, np, inpfilesK, fs, taskq,
                   chunk, mapfailed, mapstate, tmpath, njoy, outstream,
                   outstreamK, success, KERMA_warn, moves, faults>>

\* the block for the companion deck's NJOY stream; its body is built from
\* outstream, and building it from None is a TypeError that leaves the
\* banner in the file
WriteNjoyK(w) ==
    /\ chunk[w] # <<>>
    /\ pc[current(w)] = "njoyK"
    /\ LET j == current(w)
           f == inpfiles[j]
       IN  IF outstreamK[j] = "warning"
           THEN /\ ledger' = append(ledger, "WARNINGS_NJOY_KERMA.txt", j,
                     <<banner(f),
                       "Consistency problems found in acer running " \o f>>)
                /\ pc' = [pc EXCEPT ![j] = nextblock(j, 3, KERMA_warn[j])]
                /\ UNCHANGED <<fs, chunk, mapfailed>>
           ELSE IF outstream[j] = None
           THEN /\ ledger' = append(ledger, "ERRORS_NJOY_KERMA.txt", j,
                                    <<banner(f)>>)
                /\ Raise(w, j, fs, tmpath[j])
           ELSE IF onewrite(<<banner(f), outstream[j]>>)
           THEN /\ ledger' = append(ledger, "ERRORS_NJOY_KERMA.txt", j,
                                    <<banner(f), outstream[j]>>)
                /\ pc' = [pc EXCEPT ![j] = nextblock(j, 3, KERMA_warn[j])]
                /\ UNCHANGED <<fs, chunk, mapfailed>>
           ELSE /\ ledger' = append(ledger, "ERRORS_NJOY_KERMA.txt", j,
                                    <<banner(f)>>)
                /\ pc' = [pc EXCEPT ![j] = "njoyK2"]
                /\ UNCHANGED <<fs, chunk, mapfailed>>
    /\ UNCHANGED <<calls, inpfiles, proj, binary, np, inpfilesK, taskq,
                   mapstate, tmpath, njoy, outstream, outstreamK, success,
                   KERMA_warn, moves, faults>>

\* the rest of a long block in ERRORS_NJOY_KERMA.txt
WriteNjoyKRest(w) ==
    /\ chunk[w] # <<>>
    /\ pc[current(w)] = "njoyK2"
    /\ LET j == current(w)
       IN  /\ ledger' = append(ledger, "ERRORS_NJOY_KERMA.txt", j,
                               <<outstream[j]>>)
           /\ pc' = [pc EXCEPT ![j] = nextblock(j, 3, KERMA_warn[j])]
    /\ UNCHANGED <<calls, inpfiles, proj, binary, np, inpfilesK, fs, taskq,
                   chunk, mapfailed, mapstate, tmpath, njoy, outstream,
                   outstreamK, success, KERMA_warn, moves, faults>>

\* the block of move_and_clean's warnings in WARNINGS_ENDF_KERMA.txt
WriteKerma(w) ==
    /\ chunk[w] # <<>>
    /\ pc[current(w)] = "kerma"
    /\ LET j == current(w)
       IN  /\ ledger' = append(ledger, "WARNINGS_ENDF_KERMA.txt", j,
                 <<banner(inpfiles[j]), joinlines(KERMA_warn[j])>>)
           /\ pc' = [pc EXCEPT ![j] = "exit"]
    /\ UNCHANGED <<calls, inpfiles, proj, binary, np, inpfilesK, fs, taskq,
                   chunk, mapfailed, mapstate, tmpath, njoy, outstream,
                   outstreamK, success, KERMA_warn, moves, faults>>

\* the with-block ends: the temporary directory is removed and the worker
\* goes on with the next job of its chunk
Exit(w) ==
    /\ chunk[w] # <<>>
    /\ pc[current(w)] = "exit"
    /\ LET j == current(w)
       IN  /\ fs' = removed(fs, below(fs, tmpath[j]))
           /\ pc' = [pc EXCEPT ![j] = "done"]
    /\ chunk' = [chunk EXCEPT ![w] = Tail(@)]
    /\ UNCHANGED <<calls, inpfiles, proj, binary, np, inpfilesK, taskq,
                   mapfailed, mapstate, tmpath, njoy, outstream, outstreamK,
                   success, KERMA_warn, moves, ledger, faults>>

\* pool.map ends when every chunk is finished: it returns, or raises the
\* first exception a job raised
MapEnd ==
    /\ mapstate = "running"
    /\ taskq = <<>>
    /\ \A w \in Workers : chunk[w] = <<>>
    /\ mapstate' = IF mapfailed THEN "raised" ELSE "returned"
    /\ UNCHANGED <<calls, inpfiles, proj, binary, np, inpfilesK, fs, taskq,
                   chunk, mapfailed, pc, tmpath, njoy, outstream, outstreamK,
                   success, KERMA_warn, moves, ledger, faults>>

Next ==
    \/ \E w \in Workers : GetTask(w)
    \/ \E w \in Workers : Stage(w)
    \/ \E w \in Workers : RunNjoy(w, FALSE)
    \/ \E w \in Workers : RunNjoy(w, TRUE)
    \/ \E w \in Workers : MoveAndClean(w)
    \/ \E w \in Workers : WriteStatus(w)
    \/ \E w \in Workers : WriteNjoy(w)
    \/ \E w \in Workers : WriteNjoyRest(w)
    \/ \E w \in Workers : WriteNjoyK(w)
    \/ \E w \in Workers : WriteNjoyKRest(w)
    \/ \E w \in Workers : WriteKerma(w)
    \/ \E w \in Workers : Exit(w)
    \/ MapEnd

Spec == Init /\ [][Next]_vars

\* ------------------------------------------------------------- makeinput

digits == "0123456789"

lowercase == "abcdefghijklmnopqrstuvwxyz"

uppercase == "ABCDEFGHIJKLMNOPQRSTUVWXYZ"

\* the characters of \w
wordchars == lowercase \o uppercase \o digits \o "_"

\* the characters of the class [ A Z S N L I]
rolechars == " AZSNLI"

\* replace_dict: what a role stands for in the compiled pattern
replace_dict ==
    [Z |-> "\\d+", S |-> "\\w+", A |-> "\\d+", N |-> "\\d+", L |-> "\\w+",
     I |-> "\\d+"]

RECURSIVE firstin(_, _, _)
\* the first position >= i of s holding a character of the class; 0 if none
firstin(s, class, i) ==
    IF i > Len(s) THEN 0
    ELSE IF find(class, SubSeq(s, i, i), 1) > 0 THEN i
    ELSE firstin(s, class, i + 1)

RECURSIVE run(_, _, _)
\* how many characters of the class s holds in a row from position i
run(s, class, i) ==
    IF i > Len(s) \/ find(class, SubSeq(s, i, i), 1) = 0 THEN 0
    ELSE 1 + run(s, class, i + 1)

RECURSIVE re_split(_, _)
\* re.split("[class]+", s): the pieces between the runs of the class, empty
\* pieces at the ends included
re_split(s, class) ==
    LET k == firstin(s, class, 1)
    IN  IF k = 0 THEN <<s>>
        ELSE <<SubSeq(s, 1, k - 1)>>
             \o re_split(SubSeq(s, k + run(s, class, k), Len(s)), class)

RECURSIVE digit_split(_)
\* re.split("(\\d+)", s): the pieces between the runs of digits and the
\* runs themselves
digit_split(s) ==
    LET k == firstin(s, digits, 1)
        n == run(s, digits, k)
    IN  IF k = 0 THEN <<s>>
        ELSE <<SubSeq(s, 1, k - 1), SubSeq(s, k, k + n - 1)>>
             \o digit_split(SubSeq(s, k + n, Len(s)))

\* list(filter(None, pieces))
filter(pieces) == SelectSeq(pieces, LAMBDA x : x # "")

RECURSIVE bar_join(_)
\* "|".join(pieces)
bar_join(pieces) ==
    IF Len(pieces) = 0 THEN ""
    ELSE IF Len(pieces) = 1 THEN pieces[1]
    ELSE pieces[1] \o "|" \o bar_join(Tail(pieces))

\* list(filter(None, re.split("", k))): the characters of k
characters(k) == [i \in 1 .. Len(k) |-> SubSeq(k, i, i)]

RECURSIVE extend_all(_)
\* the keys longer than one character split into their characters
extend_all(keys) ==
    IF Len(keys) = 0 THEN <<>>
    ELSE (IF Len(keys[1]) > 1 THEN characters(keys[1]) ELSE <<keys[1]>>)
         \o extend_all(Tail(keys))

RECURSIVE lower(_)
\* str.lower
lower(s) ==
    IF s = "" THEN ""
    ELSE LET c == SubSeq(s, 1, 1)
             up == find(uppercase, c, 1)
         IN  (IF up > 0 THEN SubSeq(lowercase, up, up) ELSE c)
             \o lower(SubSeq(s, 2, Len(s)))

\* str.capitalize: the first character in upper case, the rest in lower case
capitalize(s) ==
    IF s = "" THEN ""
    ELSE LET c == SubSeq(s, 1, 1)
             lo == find(lowercase, c, 1)
         IN  (IF lo > 0 THEN SubSeq(uppercase, lo, lo) ELSE c)
             \o lower(SubSeq(s, 2, Len(s)))

\* a Python dict's d[key] for a dict given as its list of keys: the
\* position (from 0) of the last entry equal to key, KeyError when none is
KeyError == -1

RECURSIVE position(_, _, _)
position(keys, key, i) ==
    IF i < 1 THEN KeyError
    ELSE IF keys[i] = key THEN i - 1
    ELSE position(keys, key, i - 1)

\* patterndict = {s: ipos for ipos, s in enumerate(keys)}, looked up
patterndict(keys, role) == position(keys, role, Len(keys))

\* the roles of a pattern without its extension, in their order
pattern_keys(pattern) ==
    LET filesep == bar_join(re_split(pattern, rolechars))
        keys == filter(re_split(pattern, filesep))
    IN  IF \E i \in DOMAIN keys : Len(keys[i]) > 1
        THEN extend_all(keys) ELSE keys

RECURSIVE lastin(_, _, _)
\* the last position <= i of s holding a character of the class; 0 if none
lastin(s, class, i) ==
    IF i < 1 THEN 0
    ELSE IF find(class, SubSeq(s, i, i), 1) > 0 THEN i
    ELSE lastin(s, class, i - 1)

\* pattern[min_pos:max_pos]: the pattern from its first role to its last
between_roles(pattern) ==
    SubSeq(pattern, firstin(pattern, rolechars, 1),
           lastin(pattern, rolechars, Len(pattern)))

\* the separators between the roles, joined for re.split; a run of
\* lower-case letters among them is set between bars
pattern_filesep(pattern) ==
    LET x == bar_join(filter(re_split(between_roles(pattern), rolechars)))
        k == firstin(x, lowercase, 1)
        s == SubSeq(x, k, k + run(x, lowercase, k) - 1)
    IN  IF k = 0 THEN x ELSE replace(x, s, "|" \o s \o "|")

\* re.compile of the pattern with its roles replaced: the list of its
\* atoms, each \d+, \w+ or one literal character
compile(pattern) ==
    LET p == between_roles(pattern)
    IN  [i \in 1 .. Len(p) |->
            LET c == SubSeq(p, i, i)
            IN  IF c \in DOMAIN replace_dict THEN replace_dict[c] ELSE c]

\* the characters an atom matches
atom_class(atom) ==
    IF atom = "\\d+" THEN digits ELSE IF atom = "\\w+" THEN wordchars ELSE atom

RECURSIVE match(_, _, _, _)
\* of the lengths a repetition may take, the greatest
longest(atoms, k, s, pos, good) ==
    IF good = {} THEN 0
    ELSE match(atoms, k + 1, s, pos + CHOOSE n \in good : \A m \in good : m <= n)

\* the position after the match of the atoms from the k-th on at position
\* pos of s, 0 when there is none; a repetition takes the most characters
\* that let the rest match
match(atoms, k, s, pos) ==
    IF k > Len(atoms) THEN pos
    ELSE IF Len(atoms[k]) = 1
    THEN IF pos <= Len(s) /\ SubSeq(s, pos, pos) = atoms[k]
         THEN match(atoms, k + 1, s, pos + 1) ELSE 0
    ELSE longest(atoms, k, s, pos,
                 {n \in 1 .. run(s, atom_class(atoms[k]), pos) :
                    match(atoms, k + 1, s, pos + n) # 0})

\* the span of the match that starts at position i
span(atoms, s, i) ==
    [found |-> TRUE, iS |-> i - 1, iE |-> match(atoms, 1, s, i) - 1]

\* the span of the match at the least of the starts
leftmost(atoms, s, starts) ==
    IF starts = {} THEN [found |-> FALSE, iS |-> 0, iE |-> 0]
    ELSE span(atoms, s, CHOOSE i \in starts : \A m \in starts : i <= m)

\* re.search(pattern, s): the span of the leftmost match, or no match
re_search(atoms, s) ==
    leftmost(atoms, s, {i \in 1 .. Len(s) : match(atoms, 1, s, i) # 0})

\* the atomic symbols in the order of their atomic numbers
AS_list ==
    <<"H", "He", "Li", "Be", "B", "C", "N", "O", "F", "Ne", "Na", "Mg",
      "Al", "Si", "P", "S", "Cl", "Ar", "K", "Ca", "Sc", "Ti", "V", "Cr",
      "Mn", "Fe", "Co", "Ni", "Cu", "Zn", "Ga", "Ge", "As", "Se", "Br",
      "Kr", "Rb", "Sr", "Y", "Zr", "Nb", "Mo", "Tc", "Ru", "Rh", "Pd",
      "Ag", "Cd", "In", "Sn", "Sb", "Te", "I", "Xe", "Cs", "Ba", "La",
      "Ce", "Pr", "Nd", "Pm", "Sm", "Eu", "Gd", "Tb", "Dy", "Ho", "Er",
      "Tm", "Yb", "Lu", "Hf", "Ta", "W", "Re", "Os", "Ir", "Pt", "Au",
      "Hg", "Tl", "Pb", "Bi", "Po", "At", "Rn", "Fr", "Ra", "Ac", "Th",
      "Pa", "U", "Np", "Pu", "Am", "Cm", "Bk", "Cf", "Es", "Fm", "Md",
      "No", "Lr", "Rf", "Db", "Sg", "Bh", "Hs", "Mt", "Ds", "Rg", "Cn",
      "Nh", "Fl", "Mc", "Lv", "Ts", "Og">>

\* a Python str and a Python integer as dict keys: a str is never equal to
\* an integer; a name that no assignment has bound yet
str(s) == [type |-> "str", str |-> s]
integer(n) == [type |-> "int", int |-> n]
Unbound == [type |-> "unbound"]

\* dict(zip(AS, Z)): the items of the dict, keyed by symbol
ASZ_periodic_table ==
    {[key |-> str(AS_list[z]), value |-> z] : z \in DOMAIN AS_list}

\* dict(zip(Z, AS)): the items of the dict, keyed by atomic number
ZAS_periodic_table ==
    {[key |-> integer(z), value |-> AS_list[z]] : z \in DOMAIN AS_list}

\* whether d[key] is a KeyError
nokey(d, key) == \A item \in d : item.key # key

\* d[key] of a dict that has the key
getitem(d, key) == (CHOOSE item \in d : item.key = key).value

\* re.search("([0-9]+)m", nuclname) is not None
metastable(nuclname) ==
    \E i \in 1 .. Len(nuclname) - 1 :
        /\ find(digits, SubSeq(nuclname, i, i), 1) > 0
        /\ SubSeq(nuclname, i + 1, i + 1) = "m"

\* whether int(s) is a number and no ValueError
isnumber(s) == s # "" /\ run(s, digits, 1) = Len(s)

\* "{:03d}".format(n) and "{:02d}".format(n)
d03(n) == (IF n < 10 THEN "00" ELSE IF n < 100 THEN "0" ELSE "") \o ToString(n)
d02(n) == (IF n < 10 THEN "0" ELSE "") \o ToString(n)

\* the extension of the loop: the text after the last dot, 'endf6' when the
\* name has no extension
lib_extension(file) ==
    LET ext == splitext(file)[2]
    IN  IF ext = "" THEN "endf6" ELSE SubSeq(ext, 2, Len(ext))

\* the error that ends makeinput, and no error
NDLError == "NDLError: Pattern not found in file name"
ArityError == "OSError: Pattern name not recognised!"
IndexError == "IndexError: list index out of range"
NoRoleError == "OSError: ENDF-6 file name does not contain neither Z nor the atomic symbol!"
NoMassError == "OSError: ENDF-6 filename should contain mass number!"
ValueError == "ValueError"
IsomerError == "OSError: Name and isomer state conflict"
ZAIDError == "OSError: Name and file ZAID conflict"

RECURSIVE extend_all_digits(_)
\* tmpkeys: every key split at its runs of digits, empty pieces dropped
extend_all_digits(keys) ==
    IF Len(keys) = 0 THEN <<>>
    ELSE filter(digit_split(keys[1])) \o extend_all_digits(Tail(keys))

\* the second try at the count of the tokens: the keys split at their
\* digits, or the arity error
resplit(nroles, keys, tmpkeys) ==
    IF Len(tmpkeys) = nroles THEN [error |-> None, keys |-> tmpkeys]
    ELSE [error |-> ArityError, keys |-> keys]

\* the check of the count of the tokens against the count of the roles
checked(nroles, keys) ==
    IF Len(keys) = nroles THEN [error |-> None, keys |-> keys]
    ELSE resplit(nroles, keys, extend_all_digits(keys))

\* the tokens of the span nuclname of a file name
split_span(roles, filesep, nuclname) ==
    IF filesep = ""
    THEN [error |-> None, keys |-> filter(digit_split(nuclname))]
    ELSE checked(Cardinality({roles[i] : i \in DOMAIN roles}),
                 re_split(nuclname, filesep))

\* the tokens of a file name whose match is m
matched(roles, filesep, file, m) ==
    IF ~m.found THEN [error |-> NDLError, keys |-> <<>>]
    ELSE split_span(roles, filesep, slice(splitext(file)[1], m.iS, m.iE))

\* the tokens of a file name under a pattern given by its roles, its
\* separators and its compiled atoms: the matched span of the name split
\* at the separators, split once more at its digits when the count is not
\* the number of roles; without separators the span split at its digits
tokens(roles, filesep, atoms, file) ==
    matched(roles, filesep, file, re_search(atoms, file))

\* the temperatures [K] of the Doppler broadening, the argument broad_temp
\* of the call
broad_temp == mk.broad_temp

\* pattern, lib_extension = os.path.splitext(pattern)
root(pattern) == splitext(pattern)[1]

\* unknown symbols taken for an element without a number
unknown_numberless(AS) == integer(0)

\* except KeyError: Z = -1, the dummy value of a symbol that is not in the
\* dict
unknown(AS) == integer(-1)

\* a pass of the loop that renames nothing and writes nothing
no_effect(error, Z, AS) ==
    [error |-> error, Z |-> Z, AS |-> AS, moves |-> {}, decks |-> {}]

\* keys[ipos] for the position of a role, a KeyError when the pattern has
\* no such role, an IndexError when the tokens are too few
lookup(ipos, keys) ==
    IF ipos = KeyError THEN [error |-> "KeyError", key |-> ""]
    ELSE IF ipos >= Len(keys) THEN [error |-> IndexError, key |-> ""]
    ELSE [error |-> None, key |-> keys[ipos + 1]]

\* keys[patterndict[role]]: the token of a role
token(roles, keys, role) == lookup(patterndict(roles, role), keys)

\* the atomic number of a symbol
number(AS) ==
    IF nokey(ASZ_periodic_table, str(AS)) THEN unknown(AS)
    ELSE integer(getitem(ASZ_periodic_table, str(AS)))

\* the atomic symbol AS, the file number N and the atomic number Z from
\* the tokens S, N and Z of the roles of these names
identified(S, N, Z) ==
    IF S.error = IndexError \/ (S.error = None /\ N.error = IndexError)
    THEN [error |-> IndexError, AS |-> "", N |-> None, Z |-> integer(-1)]
    ELSE IF S.error = None
    THEN [error |-> None, AS |-> capitalize(S.key),
          N |-> (IF N.error = None THEN N.key ELSE None),
          Z |-> number(capitalize(S.key))]
    ELSE IF Z.error = "KeyError"
    THEN [error |-> NoRoleError, AS |-> "", N |-> None, Z |-> integer(-1)]
    ELSE IF Z.error = IndexError
    THEN [error |-> IndexError, AS |-> "", N |-> None, Z |-> integer(-1)]
    ELSE IF nokey(ZAS_periodic_table, str(Z.key))
    THEN [error |-> None, AS |-> "", N |-> None, Z |-> integer(-1)]
    ELSE [error |-> None, N |-> None, Z |-> str(Z.key),
          AS |-> getitem(ZAS_periodic_table, str(Z.key))]

\* the atomic symbol, the file number and the atomic number of a list of
\* tokens
element(roles, keys) ==
    identified(token(roles, keys, "S"), token(roles, keys, "N"),
               token(roles, keys, "Z"))

\* f"{Z}" of a Python value
format(Z) == IF Z.type = "int" THEN ToString(Z.int) ELSE Z.str

\* the mass number of its token: the token, or what comes before its 'm'
mass(A0) == IF isnumber(A0) THEN A0 ELSE split(A0, "m")[1]

\* ASA: the symbol and the mass number, an 'm' after them for a file name
\* of a metastable nuclide
symbol_mass(file, AS, A) ==
    AS \o "-" \o A \o (IF metastable(splitext(file)[1]) THEN "m" ELSE "")

\* ASA followed by the file number when there is one
numbered(ASA, N) ==
    ASA \o (IF N # None /\ N # "" THEN "-" \o N ELSE "")

\* the new name of the file and the decks of its temperatures: basenames
\* holds, in the order of the loop, the stem of the deck opened for
\* writing ("w") at each temperature
rename_and_write(file, e, endfnewname, basenames, kerma) ==
    [error |-> None, Z |-> e.Z, AS |-> e.AS,
     moves |-> IF file # endfnewname THEN {<<file, endfnewname>>} ELSE {},
     written |-> basenames,
     decks |-> {basenames[t] \o ".njoyinp" : t \in DOMAIN basenames}
               \cup (IF kerma
                     THEN {basenames[t] \o ".njoyinpK" :
                             t \in DOMAIN basenames}
                     ELSE {})]

\* the checks of the name against the identity id of the file, and then
\* the renaming and the decks
consistent(file, e, A, ASA, id, kerma) ==
    IF ~isnumber(A) \/ id.raised THEN no_effect(ValueError, e.Z, e.AS)
    ELSE IF metastable(splitext(file)[1]) /\ id.iso = 0
    THEN no_effect(IsomerError, e.Z, e.AS)
    ELSE IF id.ZA # format(e.Z) \o d03(int(A)) /\ id.natflag # 1
    THEN no_effect(ZAIDError, e.Z, e.AS)
    ELSE rename_and_write(file, e,
             numbered(ASA, e.N) \o "." \o lib_extension(file),
             [t \in DOMAIN broad_temp |->
                numbered(ASA, e.N) \o "_" \o d02(broad_temp[t] \div 100)],
             kerma)

\* the neutron and photo-nuclear branch for an element whose mass number
\* is A
named(file, e, A, hdr, kerma) ==
    consistent(file, e, A, symbol_mass(file, e.AS, A), parseENDF6(hdr), kerma)

\* the neutron and photo-nuclear branch for an element whose token of the
\* role A is A0
nuclear(file, e, A0, hdr, kerma) ==
    named(file, e, mass(A0), hdr, kerma)

\* the photo-atomic branch for an element: the i-th file of the
\* relaxation data is renamed with the data file
atomic(file, e, hdr, i, ar_endfiles) ==
    IF parseENDF6(hdr).raised THEN no_effect(ValueError, e.Z, e.AS)
    ELSE IF i + 1 > Len(ar_endfiles)
    THEN [error |-> IndexError, Z |-> e.Z, AS |-> e.AS, decks |-> {},
          moves |-> {<<file, e.AS \o lib_extension(file)>>}]
    ELSE [error |-> None, Z |-> e.Z, AS |-> e.AS,
          moves |-> {<<file, e.AS \o lib_extension(file)>>,
                     <<ar_endfiles[i + 1], e.AS \o lib_extension(file)>>},
          decks |-> {e.AS \o "_00.njoyinp"}]

\* the branch of an element e whose token of the role A is A
branch(pr, kerma, file, hdr, i, ar_endfiles, e, A) ==
    IF e.error # None THEN no_effect(e.error, Unbound, "")
    ELSE IF e.Z = integer(-1) THEN no_effect(None, e.Z, e.AS)
    ELSE IF pr = "pa" THEN atomic(file, e, hdr, i, ar_endfiles)
    ELSE IF A.error = "KeyError" THEN no_effect(NoMassError, e.Z, e.AS)
    ELSE IF A.error = IndexError THEN no_effect(IndexError, e.Z, e.AS)
    ELSE nuclear(file, e, A.key, hdr, kerma)

\* the pass of a file whose tokens are t
tokenised(roles, pr, kerma, file, hdr, i, ar_endfiles, t) ==
    IF t.error # None THEN no_effect(t.error, Unbound, "")
    ELSE branch(pr, kerma, file, hdr, i, ar_endfiles,
                element(roles, t.keys), token(roles, t.keys, "A"))

\* what one pass of the loop does with the file, the i-th of the listing
\* (from 0), whose header is hdr, under a pattern given by its roles, its
\* separators and its compiled atoms: the error that ends makeinput or
\* None, the atomic number Z (a Python value) and the symbol AS it
\* assigned, the renamings and the decks it wrote
one_file(roles, filesep, atoms, pr, kerma, file, hdr, i, ar_endfiles) ==
    tokenised(roles, pr, kerma, file, hdr, i, ar_endfiles,
              tokens(roles, filesep, atoms, file))

\* the pass of a file under a pattern as makeinput got it
one_pass(pattern, pr, kerma, file, hdr, i, ar_endfiles) ==
    one_file(pattern_keys(root(pattern)), pattern_filesep(root(pattern)),
             compile(root(pattern)), pr, kerma, file, hdr, i, ar_endfiles)

\* ------------------------------------------------------- build_njoy_deck

\* Python's None and its booleans as values of one argument
NoneValue == [type |-> "NoneType"]
bool(b) == [type |-> "bool", bool |-> b]

\* whether a value counts as true in a condition
truthy(v) == v.type = "bool" /\ v.bool

\* "{:12.5e}".format(tmp) for a temperature of three digits
e12_5(tmp) ==
    " " \o SubSeq(ToString(tmp), 1, 1) \o "." \o SubSeq(ToString(tmp), 2, 3)
    \o "000e+02"

\* a comment card followed by a card of its own for the time
comment_stamped(ASA, libname, vers, hostname, now) ==
    "'" \o ASA \o ", " \o libname \o ", NJOY" \o vers \o ", " \o hostname
    \o "'/" \o "\n" \o "'" \o now \o "'/"

\* the comment card of an ACER run
comment(ASA, libname, vers, hostname, now) ==
    "'" \o ASA \o ", " \o libname \o ", NJOY" \o vers \o ", " \o hostname
    \o " " \o now \o "'/"

\* a deck that converts the PENDF to text whatever was asked
moder96_always(bin) == <<"moder", "-26 96/">>

\* if binary is False: the MODER run that writes the PENDF as text
moder96(bin) == IF bin = FALSE THEN <<"moder", "-26 96/">> ELSE <<>>

\* the cards of the deck of a kind before the STOP card
cards(MAT, ASA, pr, libname, vers, hostname, now, tmp, kerma, bin) ==
    LET tmpsuff == d02(tmp \div 100)
    IN  IF pr = "n" /\ kerma = NoneValue
        THEN <<"moder", "1 -21/", "'" \o ASA \o "'/", "20 " \o MAT \o "/",
               "0/",
               "reconr", "-21 -22/", "'" \o ASA \o " PENDF'/", MAT \o " 2/",
               "0.001 0.0 0.01 5.0e-7/", "''/", "''/", "0/",
               "broadr", "-21 -22 -23/", MAT \o " 1/",
               "0.001 2.0e6 0.01 5.0e-7/", e12_5(tmp) \o "/", "0/",
               "heatr", "-21 -23 -24 40/", MAT \o " 7 0 0 1 2/",
               "302 303 304 318 401 443 444/",
               "gaspr", "-21 -24 -25/",
               "purr", "-21 -25 -26/", MAT \o " 1 1 20 64/",
               e12_5(tmp) \o "/", "1.0e10/", "0/">>
             \o moder96(bin)
             \o <<"acer", "-21 -26 0 27 28/", "1 1 1 ." \o tmpsuff \o "/",
                  comment(ASA, libname, vers, hostname, now),
                  MAT \o " " \o e12_5(tmp) \o "/", "1 1/", "/",
                  "acer", "0 27 33 29 30/", "7 1 1 ." \o tmpsuff \o "/",
                  "''/",
                  "viewr", "33 34/",
                  "viewr", "40 35/">>
        ELSE IF pr = "n" /\ truthy(kerma)
        THEN <<"heatr", "-21 -23 -54 60/", MAT \o " 7 0 0 0 2/",
               "302 303 304 318 401 443 444/",
               "purr", "-21 -54 -56/", MAT \o " 1 7 20 64/",
               e12_5(tmp) \o "/", "1.0e10 1.0e5 1.0e4 1.0e3 1.0e2 1.0e1 1/",
               "0/",
               "moder", "-26 66/",
               "moder/", "-56 67/">>
        ELSE IF pr = "pa"
        THEN <<"acer", "20 21 0 29 30/", "4 1 1 .00/",
               comment(ASA, libname, vers, hostname, now),
               " " \o MAT \o "/">>
        ELSE IF pr = "pn"
        THEN <<"moder", "20 -21/",
               "reconr", "-21 -22/", "/", MAT \o " 1 0/", "0.001 0./", "/",
               "0/",
               "acer", "-21 -22 0 27 28/", "5 0 1 ." \o tmpsuff \o "/",
               comment(ASA, libname, vers, hostname, now), MAT \o "/",
               "acer", "0 27 33 29 30/", "7 1 1 ." \o tmpsuff \o "/", "/",
               "viewr", "33 34/">>
        ELSE <<>>

\* the deck: the cards and the STOP card, joined with "\n"
build_njoy_deck(MAT, ASA, pr, libname, vers, hostname, now, tmp, kerma, bin) ==
    joinlines(Append(cards(MAT, ASA, pr, libname, vers, hostname, now, tmp,
                           kerma, bin), "stop"))

\* ------------------------------------- the functions called on their own

\* no batch is running
NoBatch ==
    /\ inpfiles = <<>>
    /\ proj = "n"
    /\ binary = TRUE
    /\ np = 1
    /\ inpfilesK = <<>>
    /\ fs = <<>>
    /\ taskq = <<>>
    /\ chunk = [w \in Workers |-> <<>>]
    /\ mapfailed = FALSE
    /\ mapstate = "idle"
    /\ pc = [j \in Jobs |-> "done"]
    /\ tmpath = [j \in Jobs |-> None]
    /\ njoy = [j \in Jobs |-> NoRun]
    /\ outstream = [j \in Jobs |-> None]
    /\ outstreamK = [j \in Jobs |-> None]
    /\ success = [j \in Jobs |-> TRUE]
    /\ KERMA_warn = [j \in Jobs |-> NoWarnings]
    /\ moves = [j \in Jobs |-> <<>>]
    /\ ledger = [f \in LedgerFiles |-> <<>>]
    /\ faults = 0

\* the largest isomer-state ordinal of a header
MaxIso == 2

\* the combined ZA values of the headers: a light nuclide, a natural
\* element, and mass numbers on both sides of 100 and of 200
ZAs == {1001, 6000, 40090, 42100, 44101, 80200, 81201, 92235}

\* the headers parseENDF6 may find: every combination of a ZA value, a MAT
\* number, an excitation energy (none, 1 eV, 76.8 keV) and an isomer state
Headers ==
    [ZA : ZAs, MAT : {" 125", "9228"}, ext_en : {0, 1, 76800},
     iso_st : 0 .. MaxIso]

InitParse ==
    /\ NoBatch
    /\ NoPool
    /\ endf \in Headers
    /\ identity = NotCalled
    /\ NoAce
    /\ NoMake
    /\ NoDeck

\* one call of parseENDF6 on a file with the header endf
Parse ==
    /\ identity = NotCalled
    /\ identity' = parseENDF6(endf)
    /\ UNCHANGED <<batch, endf, acevars, makevars, deckvars, pool>>

NextParse == Parse

SpecParse == InitParse /\ [][NextParse]_vars

\* 66 blanks, so that an ENDF-6 record carries its MAT in columns 67-70 and
\* its MF and MT in columns 71-75
pad == "                                                                  "

\* one ENDF-6 record of a material: 66 columns of data, MAT, MF and MT
record(MAT, mfmt) == pad \o MAT \o mfmt

\* the headers of the ACE directories: a ground state, a first isomer below
\* mass 100 and one above
AceHeaders ==
    {[ZA |-> 92235, MAT |-> "9228", ext_en |-> 0, iso_st |-> 0],
     [ZA |-> 95242, MAT |-> "9547", ext_en |-> 48600, iso_st |-> 1],
     [ZA |-> 43099, MAT |-> "4325", ext_en |-> 142683, iso_st |-> 1]}

\* tape29 as acer writes it for header h at temperature tag temp: the line
\* with the tag, the title line (which may quote the tag), six lines of
\* IZ/AW pairs, the NXS and JXS arrays with the fission and the unresolved
\* flags, and the first lines of the XSS array
Tape29(h, temp, pr, quoted, fiss, ures) ==
    LET tag == ZAIDT(ToString(h.ZA), temp, pr)
    IN  <<" " \o tag \o "  233.024800  2.5301E-08   12/17/12",
          IF quoted THEN "table " \o tag \o " from ENDF/B mat" \o h.MAT
          ELSE "ENDF/B mat" \o h.MAT,
          "      0   0.000000      0   0.000000",
          "      0   0.000000      0   0.000000",
          "      0   0.000000      0   0.000000",
          "      0   0.000000      0   0.000000",
          "      0   0.000000      0   0.000000",
          "      0   0.000000      0   0.000000",
          "   837118    " \o (IF fiss THEN "76499" ELSE "0")
              \o "    " \o ToString(h.ZA) \o "       47",
          "        0        0        0        0",
          "        1        0   380496   380543   380590   380637   "
              \o (IF ures THEN "837010" ELSE "0") \o "   380731",
          "  1.00000000000E-11  1.03125000000E-11">>

\* the directories move_and_clean may find: a kind of library, a header, a
\* temperature tag, the flags of tape29, tape20 with or without MT458
\* records, tape66 and tape67 there or not
AceDirs ==
    {[pr |-> pr, hdr |-> h, temp |-> "03",
      tape29 |-> Tape29(h, "03", pr, q, f, u),
      tape20 |-> <<record(h.MAT, " 1451")>>
                 \o (IF m THEN <<record(h.MAT, " 1458")>> ELSE <<>>)
                 \o <<record(h.MAT, " 3  1")>>,
      has66 |-> h66,
      tape66 |-> <<record(h.MAT, " 3301"), record(h.MAT, " 3318")>>,
      has67 |-> h67,
      tape67 |-> <<record(h.MAT, " 2153"), record(h.MAT, " 3301"),
                   record(h.MAT, " 3318")>>] :
     pr \in Projs, h \in AceHeaders, q \in BOOLEAN, f \in BOOLEAN,
     u \in BOOLEAN, m \in BOOLEAN, h66 \in BOOLEAN, h67 \in BOOLEAN}

InitAce ==
    /\ NoBatch
    /\ NoPool
    /\ NoParse
    /\ NoMake
    /\ NoDeck
    /\ ace \in AceDirs
    /\ acenew = NotCalled

\* parseENDF6("tape20") at the top of move_and_clean
ParseTape20 ==
    /\ ace # NotCalled
    /\ identity = NotCalled
    /\ identity' = parseENDF6(ace.hdr)
    /\ UNCHANGED <<batch, endf, ace, acenew, makevars, deckvars, pool>>

\* move_and_clean's first try block on the directory
FixTape29 ==
    /\ identity # NotCalled
    /\ acenew = NotCalled
    /\ ~identity.raised
    /\ acenew' = [lines |-> tape29_after(ace,
                     ace.pr,
                     ZAIDT(identity.ZA, ace.temp, ace.pr),
                     ZAIDT(ToString(int(identity.ZA) + 100 * identity.iso),
                           ace.temp, ace.pr))]
    /\ UNCHANGED <<batch, parsevars, ace, makevars, deckvars, pool>>

NextAce == ParseTape20 \/ FixTape29

SpecAce == InitAce /\ [][NextAce]_vars

\* the characters of file names in the order of their code points
codepoints == "-." \o digits \o uppercase \o "_" \o lowercase

RECURSIVE before(_, _)
\* a < b for two str
before(a, b) ==
    IF a = "" THEN b # ""
    ELSE IF b = "" THEN FALSE
    ELSE LET x == find(codepoints, SubSeq(a, 1, 1), 1)
             y == find(codepoints, SubSeq(b, 1, 1), 1)
         IN  IF x # y THEN x < y
             ELSE before(SubSeq(a, 2, Len(a)), SubSeq(b, 2, Len(b)))

RECURSIVE sorted(_)
\* sorted(os.listdir(datapath)) for a directory holding the files of S
sorted(S) ==
    IF S = {} THEN <<>>
    ELSE LET f == CHOOSE f \in S : \A g \in S \ {f} : before(f, g)
         IN  <<f>> \o sorted(S \ {f})

\* the files of the directory D that end with the extension of the
\* pattern, sorted
listing(pattern, D) ==
    sorted({f.name : f \in {g \in D : endswith(g.name,
                                                splitext(pattern)[2])}})

\* the files a data directory may hold, with the header of each
Library ==
    {[name |-> "U-238.txt",
      hdr |-> [ZA |-> 92238, MAT |-> "9237", ext_en |-> 0, iso_st |-> 0]]}
    \cup
    {[name |-> "n-092_U_235.endf",
      hdr |-> [ZA |-> 92235, MAT |-> "9228", ext_en |-> 0, iso_st |-> 0]],
     [name |-> "U-235.endf",
      hdr |-> [ZA |-> 92235, MAT |-> "9228", ext_en |-> 0, iso_st |-> 0]],
     [name |-> "Zr-090.endf",
      hdr |-> [ZA |-> 40090, MAT |-> "4025", ext_en |-> 0, iso_st |-> 0]],
     [name |-> "Am-242m.endf",
      hdr |-> [ZA |-> 95242, MAT |-> "9547", ext_en |-> 48600, iso_st |-> 1]],
     [name |-> "92-235.endf",
      hdr |-> [ZA |-> 92235, MAT |-> "9228", ext_en |-> 0, iso_st |-> 0]],
     [name |-> "U235.endf",
      hdr |-> [ZA |-> 92235, MAT |-> "9228", ext_en |-> 0, iso_st |-> 0]],
     [name |-> "U235_1.endf",
      hdr |-> [ZA |-> 92235, MAT |-> "9228", ext_en |-> 0, iso_st |-> 0]],
     [name |-> "U_235_1.endf",
      hdr |-> [ZA |-> 92235, MAT |-> "9228", ext_en |-> 0, iso_st |-> 0]],
     [name |-> "Xx-001.endf",
      hdr |-> [ZA |-> 1001, MAT |-> " 125", ext_en |-> 0, iso_st |-> 0]],
     [name |-> "notes.endf",
      hdr |-> [ZA |-> 1001, MAT |-> " 125", ext_en |-> 0, iso_st |-> 0]]}

\* the header of a file of the library
HeaderOf(file) == (CHOOSE f \in Library : f.name = file).hdr

\* the file name patterns: a symbol and a mass number with a separator, a
\* prefix and three roles, an atomic number in place of the symbol, no
\* separator at all, a role for trailing letters, an underscore
Patterns ==
    {"S-A.endf", "n-Z_S_A.endf", "Z-A.endf", "SA.endf", "S-AL.endf",
     "S_A.endf"}

\* the number of files in a data directory
MaxFiles == 3

\* the lists of temperatures [K] a call is given: each holds distinct
\* temperatures
Temperatures == {<<300, 600>>, <<300, 350>>}

\* the calls of makeinput on a directory of n files: a pattern, a kind of
\* library, the kerma flag, the list of temperatures, the
\* sorted listing of a data directory and the headers of its files; the
\* relaxation data directory holds files of the same names
MakeInputs(n) ==
    {[pattern |-> p, proj |-> pr, kerma |-> k, broad_temp |-> T,
      endfiles |-> listing(p, D),
      hdrs |-> [i \in DOMAIN listing(p, D) |-> HeaderOf(listing(p, D)[i])]] :
     p \in Patterns, pr \in Projs, k \in BOOLEAN, T \in Temperatures,
     D \in {D \in SUBSET Library : Cardinality(D) = n}}

InitMake ==
    /\ NoBatch
    /\ NoPool
    /\ NoParse
    /\ NoAce
    /\ NoDeck
    /\ mk \in MakeInputs(MaxFiles)
    /\ ifile = 0
    /\ njoyinps = {}
    /\ renamed = {}
    /\ mkerror = None
    /\ passes = <<>>

\* the end of one pass of the loop with the outcome r
Passed(r) ==
    /\ ifile' = ifile + 1
    /\ njoyinps' = njoyinps \cup r.decks
    /\ renamed' = renamed \cup r.moves
    /\ mkerror' = r.error
    /\ passes' = Append(passes, r)
    /\ UNCHANGED <<batch, parsevars, acevars, mk, deckvars, pool>>

\* one pass of makeinput's loop; an error ends the call
NextFile ==
    /\ mk # NotCalled
    /\ mkerror = None
    /\ ifile < Len(mk.endfiles)
    /\ Passed(one_pass(mk.pattern, mk.proj, mk.kerma, mk.endfiles[ifile + 1],
                       mk.hdrs[ifile + 1], ifile, mk.endfiles))

NextMake == NextFile

SpecMake == InitMake /\ [][NextMake]_vars

\* the file a library holds for the element Z under the name built from
\* its symbol (role S) or from its number (role Z), mass number 1
TableInputs ==
    {[pattern |-> role \o "-A.endf", proj |-> pr, kerma |-> FALSE,
      broad_temp |-> <<300, 600>>,
      endfiles |-> <<(IF role = "S" THEN AS_list[Z] ELSE ToString(Z))
                     \o "-001.endf">>,
      hdrs |-> <<[ZA |-> 1000 * Z + 1, MAT |-> "9999", ext_en |-> 0,
                  iso_st |-> 0]>>,
      role |-> role, Z |-> Z] :
     role \in {"S", "Z"}, pr \in Projs, Z \in DOMAIN AS_list}

InitTable ==
    /\ NoBatch
    /\ NoPool
    /\ NoParse
    /\ NoAce
    /\ NoDeck
    /\ mk \in TableInputs
    /\ ifile = 0
    /\ njoyinps = {}
    /\ renamed = {}
    /\ mkerror = None
    /\ passes = <<>>

SpecTable == InitTable /\ [][NextMake]_vars

\* the calls of build_njoy_deck: two materials, the three kinds of library,
\* two versions of NJOY, two temperatures, kerma left out, True or False,
\* the PENDF binary or text
\* gethostname() and datetime.now().strftime("%d/%m/%Y, %H:%M:%S") at the
\* time of a call
Hosts == {"node01", "node02"}
Times == {"02/11/2026, 10:15:00", "02/11/2026, 10:15:01"}

DeckInputs ==
    [MAT : {"9228", " 125"}, ASA : {"U-235", "H-001"}, proj : Projs,
     libname : {"ENDF-B/VII.1"}, vers : {"2016", "2021"},
     hostname : Hosts, now : Times,
     tmp : {300, 600}, kerma : {NoneValue, bool(TRUE), bool(FALSE)},
     binary : BOOLEAN]

InitDeck ==
    /\ NoBatch
    /\ NoPool
    /\ NoParse
    /\ NoAce
    /\ NoMake
    /\ deckargs \in DeckInputs
    /\ outstr = NotCalled
    /\ again = NotCalled

\* one call of build_njoy_deck
Build ==
    /\ deckargs # NotCalled
    /\ outstr = NotCalled
    /\ outstr' = [text |-> build_njoy_deck(deckargs.MAT, deckargs.ASA,
                     deckargs.proj, deckargs.libname, deckargs.vers,
                     deckargs.hostname, deckargs.now, deckargs.tmp,
                     deckargs.kerma, deckargs.binary)]
    /\ UNCHANGED <<batch, parsevars, acevars, makevars, deckargs, again, pool>>

\* a second call with the same arguments, on whatever host and at whatever
\* time
BuildAgain ==
    /\ outstr # NotCalled
    /\ again = NotCalled
    /\ \E hostname \in Hosts, now \in Times :
           again' = [hostname |-> hostname, now |-> now,
                     text |-> build_njoy_deck(deckargs.MAT, deckargs.ASA,
                                 deckargs.proj, deckargs.libname,
                                 deckargs.vers, hostname, now, deckargs.tmp,
                                 deckargs.kerma, deckargs.binary)]
    /\ UNCHANGED <<batch, parsevars, acevars, makevars, deckargs, outstr, pool>>

NextDeck == Build \/ BuildAgain

SpecDeck == InitDeck /\ [][NextDeck]_vars

\* the most CPUs a host has, and the most workers asked for
MaxCPU == 64
MaxAsked == 4

\* np = mp.cpu_count()-2 when np is None
default_np(cpu_count) == cpu_count - 2

\* mp.Pool(processes) raises a ValueError for a number below 1
Pool(processes) ==
    IF processes < 1
    THEN [raised |-> TRUE, processes |-> 0]
    ELSE [raised |-> FALSE, processes |-> processes]

\* the calls of buildacelib: a host with some CPUs, np left out or given
InitPool ==
    /\ NoBatch
    /\ NoParse
    /\ NoAce
    /\ NoMake
    /\ NoDeck
    /\ pool \in [cpu_count : 1 .. MaxCPU,
                 np : {NoneValue} \cup {integer(n) : n \in 1 .. MaxAsked},
                 started : {FALSE}]

\* buildacelib up to the start of its pool
StartPool ==
    /\ pool # NotCalled
    /\ ~pool.started
    /\ pool' = [cpu_count |-> pool.cpu_count, np |-> pool.np,
                started |-> TRUE,
                pool |-> Pool(IF pool.np = NoneValue
                              THEN default_np(pool.cpu_count)
                              ELSE pool.np.int)]
    /\ UNCHANGED <<batch, parsevars, acevars, makevars, deckvars>>

NextPool == StartPool

SpecPool == InitPool /\ [][NextPool]_vars

\* -------------------------------------------------------------- claims

\* the jobs whose move_and_clean has returned
Routedjobs ==
    {j \in Jobs : pc[j] \in {"status", "njoy", "njoy2", "njoyK", "njoyK2",
                             "kerma", "exit", "done"}}

\* the texts job j has in a ledger
entries(file, j) ==
    {ledger[file][i].text : i \in {k \in DOMAIN ledger[file] :
                                     ledger[file][k].job = j}}

\* the files move_and_clean looks for in job j's directory besides the
\* staged tape20 and tape21: what it scans, rewrites or compresses, and the
\* sources of its moves
expected(j) ==
    LET names == dir_names(proj, inpfiles[j], inpfilesK[j], binary)
        moved == {names[i][2] : i \in DOMAIN names}
                 \ {"tape20", "tape21", "tape30_1", "out.gz", None}
        read == IF proj = "pa" THEN {}
                ELSE {"tape67"} \cup (IF endfnameOf(inpfiles[j]) \in Fissile
                                      THEN {"tape66"} ELSE {})
    IN  moved \cup read \cup {"tape30", "output"}

\* the expected files that are not there
absent(j) == {x \in expected(j) : ~exists(fs, join(tmpath[j], x))}

\* the moves of job j into the output tree
outmoves(j) ==
    {moves[j][i].dst : i \in {k \in DOMAIN moves[j] :
         startswith(moves[j][k].dst, outpathOf(proj) \o "/")}}

\* C1: no two running jobs share a working directory, and each fixed-name
\* file in a running job's directory that move_and_clean reads (tape20,
\* tape29, tape30, output, tape66, tape67) was staged or written by that job
C1_Isolation ==
    /\ \A j \in Running : \A k \in Running \ {j} : tmpath[j] # tmpath[k]
    /\ \A j \in Running :
         \A x \in {"tape20", "tape29", "tape30", "output", "tape66", "tape67"} :
            exists(fs, join(tmpath[j], x)) => fs[join(tmpath[j], x)].by = j

\* C1: two jobs run at once, one of them routed, the other with its NJOY
\* output still in its directory
C1_Witness ==
    \E j \in Jobs : \E k \in Jobs \ {j} :
       /\ pc[j] = "status"
       /\ pc[k] = "move"
       /\ exists(fs, join(tmpath[k], "tape29"))

\* C2: when the batch has ended and missing datasets were all that was
\* wrong in it, every job whose dataset was missing has a line in
\* FAILED.txt, and every other job has run to its end and has its line in
\* COMPLETED.txt or FAILED.txt
C2_MissingDatasetFailsOnlyThatJob ==
    LET nodata == {datasetpath(inpfiles[j]) : j \in Jobs} \ DOMAIN fs
    IN  (mapstate # "running" /\ nodata # {}
         /\ faults = Cardinality(nodata)) =>
           \A j \in Jobs :
              /\ ~exists(fs, datasetpath(inpfiles[j])) =>
                    entries("FAILED.txt", j) # {}
              /\ exists(fs, datasetpath(inpfiles[j])) =>
                    /\ pc[j] = "done"
                    /\ entries("COMPLETED.txt", j)
                       \cup entries("FAILED.txt", j) # {}

cleanrun(j) ==
    /\ inpfilesK[j] # None
    /\ njoy[j].stdout = CleanStdout /\ njoy[j].stderr = ""
    /\ njoy[j].stdoutK = CleanStdout /\ njoy[j].stderrK = ""
    /\ njoy[j].omitted = {}

\* C4: a finished Neutron job with clean runs and all its artifacts has a
\* line in COMPLETED.txt, none in FAILED.txt, and its ACE file at
\* <outpath>/acedir/<stem>.ace
C4_CleanNeutronCompleted ==
    \A j \in Jobs :
       (proj = "n" /\ pc[j] = "done" /\ cleanrun(j)) =>
          /\ entries("COMPLETED.txt", j) # {}
          /\ entries("FAILED.txt", j) = {}
          /\ exists(fs, join(join(outpathOf(proj), "acedir"),
                             splitext(inpfiles[j])[1] \o ".ace"))

\* C4: a finished clean Neutron job
C4_Witness ==
    \E j \in Jobs :
       /\ proj = "n" /\ pc[j] = "done" /\ cleanrun(j)
       /\ entries("COMPLETED.txt", j) # {}

\* C5: a finished job whose deck's NJOY run wrote to stderr has a line in
\* FAILED.txt, the banner and the stderr text in ERRORS_NJOY.txt, and no
\* line in COMPLETED.txt
C5_StderrFails ==
    \A j \in Jobs :
       (pc[j] = "done" /\ njoy[j].stderr # "") =>
          /\ entries("FAILED.txt", j) # {}
          /\ entries("COMPLETED.txt", j) = {}
          /\ entries("ERRORS_NJOY.txt", j)
             = {banner(inpfiles[j]), njoy[j].stderr}

\* C6: a finished job whose deck's NJOY run wrote anything to stderr is
\* reported as an error: its block is in ERRORS_NJOY.txt and it has none in
\* WARNINGS_NJOY.txt
C6_StderrNeverWarned ==
    \A j \in Jobs :
       (pc[j] = "done" /\ njoy[j].stderr # "") =>
          /\ outstream[j] \notin {"warning", None}
          /\ entries("WARNINGS_NJOY.txt", j) = {}
          /\ entries("ERRORS_NJOY.txt", j) # {}

\* C7: when move_and_clean runs on a staged dataset with exactly one of the
\* files it expects missing, it returns, with success false and a move
\* attempted for every entry of dir_names
C7_SingleMissingNeverRaises ==
    [][\A j \in Jobs :
          (pc[j] = "move" /\ pc'[j] # "move"
           /\ exists(fs, join(tmpath[j], "tape20"))
           /\ Cardinality(absent(j)) = 1) =>
             /\ pc'[j] = "status"
             /\ success'[j] = FALSE
             /\ Len(moves'[j])
                = Len(dir_names(proj, inpfiles[j], inpfilesK[j], binary))]_vars

\* C8: when move_and_clean runs with tape29 missing, it returns with
\* success false, the move of tape29 attempted and every other file of
\* dir_names moved; and a job that got success false has its line in
\* FAILED.txt once the status is written
C8_MissingAceTolerated ==
    /\ [][\A j \in Jobs :
            (pc[j] = "move" /\ pc'[j] # "move"
             /\ ~exists(fs, join(tmpath[j], "tape29"))) =>
               /\ pc'[j] = "status"
               /\ success'[j] = FALSE
               /\ Len(moves'[j])
                  = Len(dir_names(proj, inpfiles[j], inpfilesK[j], binary))
               /\ \A i \in DOMAIN moves'[j] :
                     moves'[j][i].ok
                     <=> moves'[j][i].src # join(tmpath[j], "tape29")]_vars
    /\ [](\A j \in Routedjobs :
            (~success[j] /\ pc[j] # "status") =>
               entries("FAILED.txt", j) # {})

\* C8: a finished job that ran move_and_clean without tape29
C8_Witness ==
    \E j \in Jobs :
       /\ pc[j] = "done"
       /\ \E i \in DOMAIN moves[j] :
             moves[j][i].src = join(tmpath[j], "tape29") /\ ~moves[j][i].ok
       /\ entries("FAILED.txt", j) # {}

\* C9: in every ledger what one job appended is contiguous: no other job's
\* text lies between a job's banner and its body
C9_BlocksContiguous ==
    \A file \in LedgerFiles :
       \A i \in DOMAIN ledger[file] : \A k \in DOMAIN ledger[file] :
          (i < k /\ ledger[file][i].job = ledger[file][k].job) =>
             \A m \in i .. k : ledger[file][m].job = ledger[file][i].job

\* C10: two distinct jobs of the batch never move a file to the same path
\* of the output tree
C10_DisjointDestinations ==
    \A j \in Jobs : \A k \in Jobs \ {j} : outmoves(j) \cap outmoves(k) = {}

\* C10: two finished jobs, each with its ACE file moved into the output tree
C10_Witness ==
    \E j \in Jobs : \E k \in Jobs \ {j} :
       /\ pc[j] = "done" /\ pc[k] = "done"
       /\ outname(outpathOf(proj), "acedir", splitext(inpfiles[j])[1], ".ace")
          \in outmoves(j)
       /\ outname(outpathOf(proj), "acedir", splitext(inpfiles[k])[1], ".ace")
          \in outmoves(k)
       /\ success[j] /\ success[k]

\* how many lines job j has in a ledger with one line per entry
nlines(file, j) ==
    Cardinality({i \in DOMAIN ledger[file] : ledger[file][i].job = j})

\* C11: when the batch has ended every job has exactly one line in exactly
\* one of COMPLETED.txt and FAILED.txt, and the line is in COMPLETED.txt
\* exactly when move_and_clean returned success
C11_OneTerminalLine ==
    mapstate # "running" =>
       \A j \in Jobs :
          /\ nlines("COMPLETED.txt", j) + nlines("FAILED.txt", j) = 1
          /\ nlines("COMPLETED.txt", j) = 1
             <=> (j \in Routedjobs /\ success[j])

\* C12: parseENDF6 raises for every header whose record after the first
\* MT451 one has an excitation energy above 0 and isomer state 0
C12_ConflictRaises ==
    (identity # NotCalled /\ endf.ext_en > 0 /\ endf.iso_st = 0) => identity.raised

\* C12: parseENDF6 has raised on such a header
C12_Witness ==
    identity # NotCalled /\ endf.ext_en > 0 /\ endf.iso_st = 0 /\ identity.raised

\* C13: for every header parseENDF6 returns an identity for, the isomer
\* state is above 0 exactly when the excitation energy is
C13_AcceptedConsistent ==
    (identity # NotCalled /\ ~identity.raised) =>
       (endf.iso_st > 0 <=> endf.ext_en > 0)

\* C14: the multiplier parseENDF6 returns is 1 for an isomer with A > 200,
\* 2 with 100 < A <= 200, 3 with A <= 100, and 0 for isomer state 0, with
\* A = ZA mod 1000; the natural-element flag is 1 exactly when A = 0
C14_Multiplier ==
    (identity # NotCalled /\ ~identity.raised) =>
       LET A == endf.ZA % 1000
       IN  /\ (endf.iso_st > 0 /\ A > 200) => identity.iso = 1
           /\ (endf.iso_st > 0 /\ A > 100 /\ A <= 200) => identity.iso = 2
           /\ (endf.iso_st > 0 /\ A <= 100) => identity.iso = 3
           /\ endf.iso_st = 0 => identity.iso = 0
           /\ identity.natflag = 1 <=> A = 0
           /\ identity.natflag \in {0, 1}

\* C14: parseENDF6 has returned the multiplier of an isomer with A = 200
C14_Witness ==
    /\ identity # NotCalled /\ ~identity.raised
    /\ endf.iso_st > 0 /\ endf.ZA % 1000 = 200 /\ identity.iso = 2

\* C15: for a Neutron or PhotoNuclear job the first line of tape29 has its
\* tag <ZA>.<TT><c|g> replaced by <ZA + 100*multiplier>.<TT><c|g>, every
\* other line tape29 had is still there, unchanged and in its place, and
\* whatever is new comes after them; for a PhotoAtomic job tape29 is as it
\* was
C15_FirstLineOnly ==
    acenew # NotCalled =>
        LET old == ace.tape29
            new == acenew.lines
            A == ace.hdr.ZA % 1000
            tag == ToString(ace.hdr.ZA + 100 * multiplier(ace.hdr.iso_st, A))
                   \o "." \o ace.temp \o pdict[ace.pr]
        IN  IF ace.pr = "pa" THEN new = old
            ELSE /\ Len(new) >= Len(old)
                 /\ new[1] = " " \o tag
                             \o "  233.024800  2.5301E-08   12/17/12"
                 /\ \A i \in 2 .. Len(old) : new[i] = old[i]

\* an isomer's tape29 whose title line quotes the tag was rewritten and
\* had blocks appended
C15_Witness ==
    /\ acenew # NotCalled
    /\ ace.pr = "n"
    /\ ace.hdr.iso_st = 1
    /\ ace.tape29[1] # acenew.lines[1]
    /\ ace.tape29[2] = "table 95242.03c from ENDF/B mat9547"
    /\ Len(acenew.lines) > Len(ace.tape29)

\* C16: the file named after the symbol of an element gets the atomic
\* number of the element, the file named after the atomic number of an
\* element gets its symbol, and neither gets the dummy number -1
C16_RoundTrip ==
    \A k \in DOMAIN passes :
        /\ passes[k].error = None
        /\ passes[k].Z # integer(-1)
        /\ passes[k].AS = AS_list[mk.Z]
        /\ mk.role = "S" => passes[k].Z = integer(mk.Z)

\* the tokens of the k-th file of the listing
file_tokens(k) ==
    tokens(pattern_keys(root(mk.pattern)), pattern_filesep(root(mk.pattern)),
           compile(root(mk.pattern)), mk.endfiles[k])

\* the symbols of the 118 elements
Symbols == {AS_list[z] : z \in DOMAIN AS_list}

\* the k-th file of the listing has a token for the role S, as many tokens
\* as the pattern has roles, and the token names no element
not_an_element(k) ==
    LET t == file_tokens(k)
        roles == pattern_keys(root(mk.pattern))
        S == patterndict(roles, "S")
    IN  /\ t.error = None
        /\ S # KeyError
        /\ Len(t.keys) = Len(roles)
        /\ capitalize(t.keys[S + 1]) \notin Symbols

\* C17: a file whose symbol token names no element gets the atomic number
\* -1, no deck and no new name, raises no error, and the loop goes on to
\* the files after it
C17_NotAnElementSkipped ==
    \A k \in DOMAIN passes :
        not_an_element(k) =>
            /\ passes[k].Z = integer(-1)
            /\ passes[k].decks = {}
            /\ passes[k].moves = {}
            /\ passes[k].error = None
            /\ k = Len(passes) => mkerror = None

\* a file that names no element was passed and a deck was written for the
\* file after it
C17_Witness ==
    \E k \in DOMAIN passes :
        /\ not_an_element(k)
        /\ k < Len(passes)
        /\ passes[k + 1].decks # {}

\* makeinput has returned or raised
returned == mkerror # None \/ ifile = Len(mk.endfiles)

\* the decks makeinput writes for the k-th file of the listing when the
\* file is the only one of the directory
decks_alone(k) ==
    one_pass(mk.pattern, mk.proj, mk.kerma, mk.endfiles[k], mk.hdrs[k],
             k - 1, mk.endfiles).decks

\* C18: when a file does not match the pattern or has the wrong number of
\* tokens, the decks of all the other files of the directory are written
\* all the same, those of the files sorted after it too
C18_ErrorDoesNotStopBatch ==
    (returned /\ mkerror \in {NDLError, ArityError}) =>
        \A k \in DOMAIN mk.endfiles : decks_alone(k) \subseteq njoyinps

\* C19: with or without separators in the pattern, a matching file whose
\* tokens are not as many as the roles, also after the split at the digits,
\* ends makeinput with the arity error, and no role is read from a list of
\* tokens of another length than the list of roles
C19_ArityChecked ==
    \A k \in DOMAIN passes :
        LET t == file_tokens(k)
        IN  (t.error # NDLError
             /\ Len(t.keys) # Len(pattern_keys(root(mk.pattern))))
            => passes[k].error = ArityError

\* the modules of NJOY a deck may call, and the card that ends a deck
Modules ==
    {"moder", "reconr", "broadr", "heatr", "gaspr", "purr", "acer", "viewr",
     "stop"}

\* the word NJOY reads from a card: the text before the first blank or
\* slash
word(card) ==
    LET k == firstin(card, " /", 1)
    IN  IF k = 0 THEN card ELSE SubSeq(card, 1, k - 1)

\* the modules a deck calls, in the order of their cards
stages(deck) ==
    LET lines == split(deck, "\n")
        calling == SelectSeq(lines, LAMBDA card : word(card) \in Modules)
    IN  [i \in DOMAIN calling |-> word(calling[i])]

\* C20: the deck of each kind calls its modules in the fixed order: the
\* neutron deck moder, reconr, broadr, heatr, gaspr, purr, a moder more
\* when the PENDF is asked as text, acer, acer, viewr, viewr; its heat
\* companion heatr, purr, moder, moder; the photo-atomic deck acer; the
\* photo-nuclear deck moder, reconr, acer, acer, viewr; and every deck has
\* one stop card, which is its last line
C20_StageSequence ==
    outstr # NotCalled =>
        LET lines == split(outstr.text, "\n")
            called == stages(outstr.text)
            body == SubSeq(called, 1, Len(called) - 1)
            a == deckargs
        IN  /\ lines[Len(lines)] = "stop"
            /\ called[Len(called)] = "stop"
            /\ \A i \in DOMAIN body : body[i] # "stop"
            /\ (a.proj = "n" /\ a.kerma = NoneValue) =>
                 body = <<"moder", "reconr", "broadr", "heatr", "gaspr",
                          "purr">>
                        \o (IF a.binary THEN <<>> ELSE <<"moder">>)
                        \o <<"acer", "acer", "viewr", "viewr">>
            /\ (a.proj = "n" /\ a.kerma = bool(TRUE)) =>
                 body = <<"heatr", "purr", "moder", "moder">>
            /\ a.proj = "pa" => body = <<"acer">>
            /\ a.proj = "pn" =>
                 body = <<"moder", "reconr", "acer", "acer", "viewr">>

\* a neutron deck with the PENDF asked as text was built
C20_Witness ==
    /\ outstr # NotCalled
    /\ deckargs.proj = "n"
    /\ deckargs.kerma = NoneValue
    /\ ~deckargs.binary
    /\ Len(stages(outstr.text)) = 12

\* the lines of the two decks that are not the same
differing ==
    LET one == split(outstr.text, "\n")
        two == split(again.text, "\n")
    IN  {i \in DOMAIN one \cup DOMAIN two :
           i \notin DOMAIN one \/ i \notin DOMAIN two \/ one[i] # two[i]}

\* C21: two calls of build_njoy_deck with the same MAT, nuclide, kind,
\* library name, version, temperature, kerma flag and binary flag return
\* decks that differ in one line at most, and that line is the comment card
\* that carries the host name and the time
C21_DeterministicButStamp ==
    again # NotCalled =>
        /\ Len(split(outstr.text, "\n")) = Len(split(again.text, "\n"))
        /\ Cardinality(differing) <= 1
        /\ \A i \in differing :
              /\ split(outstr.text, "\n")[i]
                   = comment(deckargs.ASA, deckargs.libname, deckargs.vers,
                             deckargs.hostname, deckargs.now)
              /\ split(again.text, "\n")[i]
                   = comment(deckargs.ASA, deckargs.libname, deckargs.vers,
                             again.hostname, again.now)

\* a neutron deck was built twice, on two hosts at two times, and the two
\* decks are not the same text
C21_Witness ==
    /\ again # NotCalled
    /\ deckargs.proj = "n"
    /\ deckargs.kerma = NoneValue
    /\ again.hostname # deckargs.hostname
    /\ again.now # deckargs.now
    /\ differing # {}

\* C22: makeinput writes a companion deck <stem>.njoyinpK only when the
\* kind of the library is "n"; for "pa" and "pn" no deck written has the
\* extension of the companion
C22_CompanionOnlyNeutron ==
    \A deck \in njoyinps : endswith(deck, ".njoyinpK") => mk.proj = "n"

\* C23: on a host with one CPU or more, the pool buildacelib starts when
\* np is not given has one worker at least, and its start raises nothing
C23_DefaultPoolPositive ==
    (pool # NotCalled /\ pool.started /\ pool.np = NoneValue) =>
        ~pool.pool.raised /\ pool.pool.processes >= 1

\* C24: for one nuclide, the decks makeinput writes for two distinct
\* temperatures of broad_temp are two distinct files, so that no deck is
\* overwritten by the deck of another temperature
C24_DeckPerTemperature ==
    \A k \in DOMAIN passes :
        (passes[k].error = None /\ mk.proj # "pa") =>
            \A s, t \in DOMAIN broad_temp :
                broad_temp[s] # broad_temp[t] =>
                    passes[k].written[s] # passes[k].written[t]

\* C25: a job whose companion run wrote to stderr, once it is past the
\* companion's block, has in ERRORS_NJOY_KERMA.txt its banner and the
\* companion's own stderr text, whatever the primary run gave, and it was
\* not ended by an exception after its COMPLETED/FAILED line
C25_CompanionStderrVerbatim ==
    \A j \in Jobs :
       (/\ outstreamK[j] \notin {None, "warning"}
        /\ entries("COMPLETED.txt", j) \cup entries("FAILED.txt", j) # {}
        /\ pc[j] \in {"kerma", "exit", "done", "raised"}) =>
          /\ pc[j] # "raised"
          /\ entries("ERRORS_NJOY_KERMA.txt", j)
             = {banner(inpfiles[j]), njoy[j].stderrK}

\* the nuclide tag of job j: ZAID, temperature and particle suffix
tag(j) ==
    LET hdr == parseENDF6(Header(endfnameOf(inpfiles[j])))
    IN  ToString(hdr.ZAint + 100 * hdr.iso) \o "."
        \o split(splitext(inpfiles[j])[1], "_")[2] \o pdict[proj]

\* the blocks expected for the nuclide of job j
expectedblocks(j) ==
    {<<"tape67", "3301">>}
    \cup (IF endfnameOf(inpfiles[j]) \in Fissile
          THEN {<<"tape20", "1458">>, <<"tape66", "3318">>,
                <<"tape67", "3318">>}
          ELSE {})
    \cup (IF endfnameOf(inpfiles[j]) \in Unresolved
          THEN {<<"tape67", "2153">>} ELSE {})

\* the files the scan of job j's blocks opens, in the order it opens them
scanfiles(j) ==
    <<"tape29">>
    \o (IF endfnameOf(inpfiles[j]) \in Fissile
        THEN <<"tape20", "tape66">> ELSE <<>>)
    \o <<"tape67">>

\* block b of job j is scanned: its file and the files opened before it
\* are in the job's directory
scanned(j, b) ==
    \A i \in DOMAIN scanfiles(j) :
       (\A k \in 1 .. i - 1 : scanfiles(j)[k] # b[1]) =>
           exists(fs, join(tmpath[j], scanfiles(j)[i]))

\* what the warning of an empty block says before the tag
blocktext(b) ==
    CASE b = <<"tape20", "1458">> -> "Warning: no MT458 data for "
      [] b = <<"tape66", "3318">> ->
            "Warning: no local fission KERMA data for "
      [] b = <<"tape67", "3301">> -> "Warning: no non-local KERMA data for "
      [] b = <<"tape67", "3318">> ->
            "Warning: no non-local fission KERMA data for "
      [] b = <<"tape67", "2153">> ->
            "Warning: no additional ures data for KERMA data for "

\* the expected blocks of job j that are scanned and have no line
emptyblocks(j) ==
    {b \in expectedblocks(j) : scanned(j, b) /\ b \in njoy[j].nolines}

\* C26: when move_and_clean returns for a Neutron or PhotoNuclear job, each
\* expected block that was scanned and has no line has exactly one warning
\* with the nuclide tag in the returned list, the list holds nothing else,
\* and success is false only when a file is missing: a scanned file, tape30
\* or the source of a move
C26_EmptyBlockWarned ==
    [][\A j \in Jobs :
          (pc[j] = "move" /\ pc'[j] = "status" /\ proj \in {"n", "pn"}) =>
             LET W == IF KERMA_warn'[j] = NoWarnings THEN <<>>
                      ELSE KERMA_warn'[j]
             IN  /\ \A b \in emptyblocks(j) :
                       Cardinality({i \in DOMAIN W :
                                      W[i] = blocktext(b) \o tag(j)}) = 1
                 /\ Len(W) = Cardinality(emptyblocks(j))
                 /\ ~success'[j] =>
                       \/ \E i \in DOMAIN scanfiles(j) :
                             ~exists(fs, join(tmpath[j], scanfiles(j)[i]))
                       \/ ~exists(fs, join(tmpath[j], "tape30"))
                       \/ \E i \in DOMAIN moves'[j] : ~moves'[j][i].ok]_vars

\* C26: a finished job whose move_and_clean returned success with a warning
\* of an empty block
C26_Witness ==
    \E j \in Jobs :
       /\ pc[j] = "done"
       /\ proj \in {"n", "pn"}
       /\ success[j]
       /\ KERMA_warn[j] # NoWarnings
       /\ Len(KERMA_warn[j]) >= 1
       /\ njoy[j].nolines # {}

\* C27: when move_and_clean returns for a Neutron job without a companion
\* deck, it has attempted one move for each entry of dir_names but the
\* absent deck, none of them twice for the same file, and with every file
\* of the deck's own run in the directory it returns success
C27_AbsentCompanionHarmless ==
    [][\A j \in Jobs :
          (pc[j] = "move" /\ pc'[j] = "status" /\ proj = "n"
           /\ inpfilesK[j] = None) =>
             /\ Len(moves'[j])
                = Len(dir_names(proj, inpfiles[j], None, binary)) - 1
             /\ \A i, k \in DOMAIN moves'[j] :
                   i # k => moves'[j][i].src # moves'[j][k].src
             /\ (\A x \in NjoyFiles("n", FALSE, binary) :
                    exists(fs, join(tmpath[j], x))) => success'[j]]_vars

\* C28: a PhotoNuclear job whose NJOY run left every file its deck writes
\* gets success from move_and_clean and its line in COMPLETED.txt
C28_PhotoNuclearCompleted ==
    \A j \in Routedjobs :
       (proj = "pn" /\ njoy[j].omitted = {} /\ pc[j] # "status") =>
          /\ success[j]
          /\ entries("COMPLETED.txt", j) # {}
          /\ entries("FAILED.txt", j) = {}

\* C29: when a PhotoAtomic job ends, by its last ledger line or by an
\* exception, the relaxation dataset that was in the library or staged as
\* the job's tape21 is at its path in the library
C29_RelaxationKept ==
    [][\A j \in Jobs :
          (/\ proj = "pa"
           /\ pc[j] \notin {"done", "raised"}
           /\ pc'[j] \in {"done", "raised"}
           /\ \/ exists(fs, relaxpath(inpfiles[j]))
              \/ exists(fs, join(tmpath[j], "tape21"))) =>
             exists(fs', relaxpath(inpfiles[j]))]_vars

\* C30: a job has text in WARNINGS_ENDF_KERMA.txt only if move_and_clean
\* returned one warning string for it at least
C30_KermaBlockOnlyWithWarnings ==
    \A j \in Jobs :
       entries("WARNINGS_ENDF_KERMA.txt", j) # {} =>
          /\ KERMA_warn[j] # NoWarnings
          /\ Len(KERMA_warn[j]) >= 1

====
